---- MODULE Spec2Model ----
(***************************************************************************)
(* State-machine model of the HomeStore checkpoint manager                 *)
(* (src/src/lib/checkpoint/cp_mgr.cpp): CPManager, CPGuard, CPWatchdog.    *)
(*                                                                         *)
(* Threads are user threads (producers, timer callbacks, forcing callers,  *)
(* the caller of shutdown) and the single cp_io reactor thread that runs   *)
(* the completion lambda of on_cp_flush_done.  Every step of an action is  *)
(* one access to shared memory (an atomic, a mutex, the RCU pointer) or a  *)
(* run of accesses that the held mutex makes indivisible.                  *)
(*                                                                         *)
(* The second part models the device manager (src/unnamed/part_003):       *)
(* construction over the presented devices, format_devices, load_devices   *)
(* with load_vdevs, create_vdev, and restarts of the process; the third    *)
(* the setters of one chunk record (src/src/device/device.h).  Each part   *)
(* has its own variables and its own specification.                        *)
(*                                                                         *)
(* Further parts follow the CPGuard objects one by one, cp_io_exit with    *)
(* its load and its call as separate steps, and register_consumer beside   *)
(* the switchover loop of trigger_cp_flush; create_vdev with a crash at    *)
(* each point of its two loops; HomeLogStoreMgr::device_truncate           *)
(* (src/unnamed/part_001) with the truncate thread; and SoloReplDev        *)
(* (src/src/lib/replication/repl_dev/solo_repl_dev.cpp) writing journal    *)
(* entries and replaying them after a restart.                             *)
(*                                                                         *)
(* The last parts take the append callback of SoloReplDev line by line,    *)
(* with callbacks of different records and cp_flush running beside one     *)
(* another, and trigger_cp_flush called by a thread that holds a CPGuard.  *)
(***************************************************************************)
EXTENDS Integers, Sequences, FiniteSets, TLC

\* ------------------------------------------------------------- bounds
MaxCP == 3            \* CP ids that may be allocated: 1..MaxCP
NumUsers == 2         \* user threads
NumConsumers == 2     \* registered CP consumers
MaxNest == 2          \* depth of nested CPGuards on one thread
MaxRestarts == 1      \* crash/restart cycles
MaxTicks == 2         \* watchdog timer firings counted since set_cp
MaxStallTicks == 14   \* timer firings followed while a flush is stalled

\* ------------------------------------------------------------- constants
max_time_multiplier == 12

IO == 0                               \* the cp_io reactor thread
Users == 1..NumUsers
Threads == {IO} \cup Users
Consumers == 1..NumConsumers
CpIds == 1..MaxCP
NULL == 0                             \* nullptr

NoPromise == <<0, 0>>
NoFut == [kind |-> "none", p |-> NoPromise, cp |-> 0, forced |-> FALSE, inprog |-> 0]
FalseFut == [kind |-> "false", p |-> NoPromise, cp |-> 0, forced |-> FALSE, inprog |-> 0]

NoCP == [alloc |-> "none", m_cp_status |-> "none", m_enter_cnt |-> 0,
         m_cp_waiting_to_trigger |-> FALSE, m_comp_promise |-> 0]

VARIABLES
    m_cur_cp,                 \* CPManager::m_cur_cp: a CP id, or NULL
    cps,                      \* the CP objects, by id
    m_in_flush_phase,         \* CPManager::m_in_flush_phase
    m_cp_shutdown_initiated,  \* CPManager::m_cp_shutdown_initiated
    trigger_cp_mtx,           \* holder of trigger_cp_mtx, or -1
    m_last_flushed_cp,        \* m_sb->m_last_flushed_cp, in memory
    sb_disk,                  \* the CP super-block as last written
    rcu_wait,                 \* readers synchronize_rcu is waiting for
    flush_pending,            \* per CP: consumers whose cp_flush future is pending
    io_q,                     \* lambdas queued on the blocking io fiber
    pc,                       \* per thread: position
    t_cp_stack,               \* per thread: CPGuard::t_cp_stack (top first)
    l_cp,                     \* per thread: local CP pointer
    l_force,                  \* per thread: trigger_cp_flush's argument
    l_ctx,                    \* per thread: who called trigger_cp_flush
    l_ret,                    \* per thread: ret_fut / captured values
    fut,                      \* per thread: the future last returned to it
    cb_shutdown_initiated,    \* the lambda's local shutdown_initiated
    wd_alive,                 \* m_wd_cp is not reset
    wd_m_cp,                  \* CPWatchdog::m_cp
    wd_m_progress_pct,        \* CPWatchdog::m_progress_pct
    wd_elapsed,               \* timer intervals since m_last_state_ch_time
    wd_repaired,              \* consumers repair_slow_cp was called on, last firing
    wd_prev_avg,              \* average progress at the previous firing (-1: none)
    wd_stuck,                 \* the "cp seems to be stuck" assertion fired
    resolved,                 \* promises on which setValue was called
    completed,                \* CPs whose completion promise was resolved
    prev_completed,           \* CPs completed before the last restart
    persisted,                \* CPs whose super-block write was done
    cleaned,                  \* CPs on which cleanup_cp ran
    inflight_cp,              \* the CP the flush in progress is about
    restarts,                 \* restarts so far
    ub                        \* a destroyed or null object was accessed

VARIABLES
    m_dev_infos,              \* DeviceManager::m_dev_infos: the devices presented
    m_first_blk_hdr,          \* DeviceManager::m_first_blk_hdr
    m_first_time_boot,        \* DeviceManager::m_first_time_boot
    m_all_pdevs,              \* DeviceManager::m_all_pdevs: pdev id -> device, or 0
    m_pdevs_by_type,          \* DeviceManager::m_pdevs_by_type: tier -> devices
    m_vdev_id_bm,             \* DeviceManager::m_vdev_id_bm: the bits set
    m_chunk_id_bm,            \* DeviceManager::m_chunk_id_bm: the bits set
    m_vdevs,                  \* DeviceManager::m_vdevs: vdev id -> vdev, or NoVdev
    m_chunks,                 \* DeviceManager::m_chunks: chunk id -> chunk, or NoChunk
    dm_disk,                  \* per device: first block, vdev table, chunk table
    dm_pc,                    \* position of the device manager
    dm_last,                  \* the last create_vdev: its outcome and what it computed
    dm_handles,               \* vdev objects handed to the upper layer since boot
    dm_issued,                \* <<chunk id, chunk>> pairs handed out by create_vdev
    dm_snap,                  \* the topology in memory when the process last stopped
    dm_creates,               \* create_vdev calls that allocated a vdev id so far
    dm_boots                  \* restarts of the device manager so far

VARIABLES
    chunk_info,               \* PhysicalDevChunk::m_chunk_info of one chunk
    chunk_op                  \* the last operation applied to it, and is_busy() before it

VARIABLES
    guards                    \* the CPGuard objects: m_cp, m_pushed, and the thread using it

VARIABLES
    cp_flush_calls            \* per CP: how often cp_start_flush ran its cp_flush loop

VARIABLES
    m_cp_cb_table,            \* CPManager::m_cp_cb_table: per consumer, callbacks are set
    m_contexts,               \* CP::m_contexts: per CP and consumer, the context stored
    on_switchover_calls,      \* per CP and consumer: on_switchover_cp calls made for it
    sw_idx,                   \* trigger_cp_flush: idx of the loop of lines 178-181
    reg_pc                    \* per consumer: position of its register_consumer call

VARIABLES
    treqs,                    \* per device_truncate call: its truncate_req, and what was done
    tr_calls,                 \* device_truncate calls made so far
    tr_pc,                    \* position of the caller of device_truncate
    tr_idx,                   \* device_truncate: position of the loop over the families
    trunc_q,                  \* work sent to the truncate thread: <<request, family>>
    trunc_stage,              \* how far the truncate thread is with the head of trunc_q
    fam_stores,               \* per family and store slot: the store, or NoStore
    fam_start                 \* per family: the lowest LSN its log device still holds

VARIABLES
    j_pc,                     \* SoloReplDev: "up", "replay", "undefined"
    j_writes,                 \* requests whose data write is under way
    j_seq,                    \* the data journal: the LSN of its next append
    j_boot_seq,               \* j_seq when the log store was created or opened
    j_buf,                    \* the data journal: records appended and not flushed
    j_media,                  \* the data journal: records on media
    j_cb_q,                   \* the data journal: flushed records whose callback is due
    j_idx,                    \* replay: the record of j_media on_log_found is called for next
    j_commits,                \* the on_commit calls made to the listener since boot
    j_fired,                  \* the on_commit calls made by append callbacks before the boot
    m_commit_upto,            \* SoloReplDev::m_commit_upto
    j_appends,                \* async_alloc_write calls so far
    j_boots                   \* restarts of the replication device so far

VARIABLES
    cb_run,                   \* append callbacks under way: the record, the position, cur_lsn
    req_steps,                \* per async_alloc_write call: the steps made for it, in order
    cp_pc,                    \* SoloReplDev::cp_flush: its position
    cp_lsn,                   \* SoloReplDev::cp_flush: its local lsn
    m_rd_sb,                  \* the repl_dev_superblk as last written
    sb_writes                 \* the m_rd_sb.write() calls of cp_flush and what was committed

dmVars == <<m_dev_infos, m_first_blk_hdr, m_first_time_boot, m_all_pdevs, m_pdevs_by_type,
            m_vdev_id_bm, m_chunk_id_bm, m_vdevs, m_chunks, dm_disk, dm_pc,
            dm_last, dm_handles, dm_issued, dm_snap, dm_creates, dm_boots>>
chunkVars == <<chunk_info, chunk_op>>
guardVars == <<guards>>
flushVars == <<cp_flush_calls>>
swVars == <<m_cp_cb_table, m_contexts, on_switchover_calls, sw_idx, reg_pc>>
truncVars == <<treqs, tr_calls, tr_pc, tr_idx, trunc_q, trunc_stage, fam_stores, fam_start>>

journalVars == <<j_pc, j_writes, j_seq, j_boot_seq, j_buf, j_media, j_cb_q, j_idx, j_commits,
                 j_fired, m_commit_upto, j_appends, j_boots>>

\* the variables of the log store service and of the replication device on top of it
commitVars == <<cb_run, req_steps, cp_pc, cp_lsn, m_rd_sb, sb_writes>>
logVars == <<truncVars, journalVars, commitVars>>

\* the variables that neither the device manager nor a chunk touches, the checkpoint
\* manager's apart
auxVars == <<guardVars, flushVars, swVars, logVars>>

\* the variables of the components that share nothing with the checkpoint manager
farVars == <<dmVars, chunkVars, logVars>>

\* the variables of the components other than the checkpoint manager
restVars == <<dmVars, chunkVars, guardVars, flushVars, swVars, logVars>>

cpVars == <<m_cur_cp, cps, m_in_flush_phase, m_cp_shutdown_initiated, trigger_cp_mtx,
          m_last_flushed_cp, sb_disk, rcu_wait, flush_pending, io_q, pc, t_cp_stack,
          l_cp, l_force, l_ctx, l_ret, fut, cb_shutdown_initiated, wd_alive, wd_m_cp,
          wd_m_progress_pct,
          wd_elapsed, wd_repaired, wd_prev_avg, wd_stuck, resolved, completed,
          prev_completed, persisted, cleaned, inflight_cp, restarts, ub>>

vars == <<cpVars, restVars>>

mgrVars == <<m_cur_cp, cps, m_in_flush_phase, m_cp_shutdown_initiated, trigger_cp_mtx>>
sbVars == <<m_last_flushed_cp, sb_disk>>
wdVars == <<wd_alive, wd_m_cp, wd_m_progress_pct, wd_elapsed, wd_repaired, wd_prev_avg,
            wd_stuck>>
histVars == <<resolved, completed, prev_completed, persisted, cleaned, restarts>>
localVars == <<l_cp, l_force, l_ctx, l_ret>>
ioVars == <<io_q, cb_shutdown_initiated>>

\* ------------------------------------------------------------- helpers
Live(c) == c \in CpIds /\ cps[c].alloc = "live"

Top(t) == Head(t_cp_stack[t])
Push(t, c) == [t_cp_stack EXCEPT ![t] = <<c>> \o @]
Pop(t) == [t_cp_stack EXCEPT ![t] = Tail(@)]

\* CPManager::create_first_cp: the id of the first CP
FirstCpId(last) == last + 1

\* CPManager::cp_ref
cp_ref(c) == [cps EXCEPT ![c].m_enter_cnt = @ + 1]

\* m_enter_cnt.decrement_testz(1) of cp_io_exit
cp_dec(c) == [cps EXCEPT ![c].m_enter_cnt = @ - 1]

\* CPManager::create_first_cp: one CP, cp_io_ready, id m_last_flushed_cp + 1
FirstCps(last) ==
    [c \in CpIds |-> IF c = FirstCpId(last)
                     THEN [NoCP EXCEPT !.alloc = "live", !.m_cp_status = "cp_io_ready"]
                     ELSE NoCP]

\* the checkpoint manager after construction and start(first_time_boot = true)
InitCP ==
    /\ m_cur_cp = FirstCpId(0)
    /\ cps = FirstCps(0)
    /\ m_in_flush_phase = FALSE
    /\ m_cp_shutdown_initiated = FALSE
    /\ trigger_cp_mtx = -1
    /\ m_last_flushed_cp = 0
    /\ sb_disk = 0
    /\ rcu_wait = {}
    /\ flush_pending = [c \in CpIds |-> {}]
    /\ io_q = <<>>
    /\ pc = [t \in Threads |-> "idle"]
    /\ t_cp_stack = [t \in Threads |-> <<>>]
    /\ l_cp = [t \in Threads |-> 0]
    /\ l_force = [t \in Threads |-> FALSE]
    /\ l_ctx = [t \in Threads |-> "user"]
    /\ l_ret = [t \in Threads |-> NoFut]
    /\ fut = [t \in Threads |-> NoFut]
    /\ cb_shutdown_initiated = FALSE
    /\ wd_alive = TRUE
    /\ wd_m_cp = NULL
    /\ wd_m_progress_pct = 0
    /\ wd_elapsed = 0
    /\ wd_repaired = {}
    /\ wd_prev_avg = -1
    /\ wd_stuck = FALSE
    /\ resolved = {}
    /\ completed = {}
    /\ prev_completed = {}
    /\ persisted = {}
    /\ cleaned = {}
    /\ inflight_cp = 0
    /\ restarts = 0
    /\ ub = FALSE

-----------------------------------------------------------------------------
\* The device manager (DeviceManager) and the chunk record (PhysicalDevChunk).

MaxDevs == 2              \* devices of the home system
MaxStreams == 2           \* PhysicalDev::num_streams() is 1..MaxStreams
MaxChunksInPdev == 2      \* hs_super_blk::max_chunks_in_pdev() is 1..MaxChunksInPdev
MAX_VDEVS == 2            \* size of m_vdev_id_bm
MAX_CHUNKS_IN_SYSTEM == 4 \* size of m_chunk_id_bm
MaxNumChunks == 3         \* vdev_parameters::num_chunks is 1..MaxNumChunks
MaxVdevSize == 2          \* vdev_parameters::vdev_size is 1..MaxVdevSize
MaxBlkSize == 2           \* vdev_parameters::blk_size is 1..MaxBlkSize
MaxCreates == 2           \* create_vdev calls that allocate a vdev id in one behaviour
MaxBoots == 1             \* restarts of the device manager in one behaviour

CURRENT_SUPERBLOCK_VERSION == 2
OLD_SUPERBLOCK_VERSION == 1
HomeUuid == 1             \* the uuid format_devices generated for the home system
ForeignUuid == 2          \* the uuid of some other system
NilUuid == 0
npos == -1                \* sisl::Bitset::npos
INVALID_VDEV_ID == -1     \* UINT32_MAX
INVALID_CHUNK_ID == -1    \* UINT32_MAX
Foreign == MaxDevs + 1    \* a device that was never part of the home system

Devs == 1 .. MaxDevs
AllDevs == 1 .. Foreign
VdevIds == 0 .. (MAX_VDEVS - 1)
ChunkIds == 0 .. (MAX_CHUNKS_IN_SYSTEM - 1)
DevTypes == {"Data", "Fast"}
Policies == {"STRIPED", "MIRRORED", "SINGLE_FIRST", "SINGLE_ANY"}

NoVdev == [live |-> FALSE]
NoChunk == [live |-> FALSE]
NoVinfo == [slot_allocated |-> FALSE]
\* first_block_header as default-constructed
BlankHdr == [version |-> 0, gen_number |-> 0, num_pdevs |-> 0, system_uuid |-> NilUuid]
\* first_block of a device never formatted: hdr, and this_pdev_hdr's pdev_id and uuid
BlankFirstBlk == [valid |-> FALSE, hdr |-> BlankHdr, pdev_id |-> 0, system_uuid |-> NilUuid]
\* a device: what it is (tier, streams, chunk capacity) and what is written on it
BlankDisk(hw) == [hw |-> hw, fb |-> BlankFirstBlk,
                  vdevs |-> [v \in VdevIds |-> NoVinfo], chunks |-> {}]
Hardware == [dev_type : DevTypes, num_streams : 1 .. MaxStreams,
             max_chunks : 1 .. MaxChunksInPdev]
NoCreate == [status |-> "none"]
NoSnap == [valid |-> FALSE]

\* the members of a DeviceManager as its constructor leaves them over blank devices
DmMembersBlank ==
    /\ m_first_blk_hdr = BlankHdr
    /\ m_first_time_boot = TRUE
    /\ m_all_pdevs = [i \in 0 .. (MaxDevs - 1) |-> 0]
    /\ m_pdevs_by_type = [ty \in DevTypes |-> <<>>]
    /\ m_vdev_id_bm = {}
    /\ m_chunk_id_bm = {}
    /\ m_vdevs = [v \in VdevIds |-> NoVdev]
    /\ m_chunks = [c \in ChunkIds |-> NoChunk]
    /\ dm_pc = "constructed"
    /\ dm_last = NoCreate
    /\ dm_handles = {}
    /\ dm_issued = {}
    /\ dm_snap = NoSnap
    /\ dm_creates = 0
    /\ dm_boots = 0

\* no device manager in the run
DmIdle ==
    /\ DmMembersBlank
    /\ m_dev_infos = <<>>
    /\ dm_disk = [d \in AllDevs |->
                     BlankDisk([dev_type |-> "Data", num_streams |-> 1, max_chunks |-> 1])]

\* a chunk slot as PhysicalDev hands it out: free, linked to nothing
FreeChunkInfo == [vdev_id |-> INVALID_VDEV_ID, primary_chunk_id |-> INVALID_CHUNK_ID,
                  is_sb_chunk |-> FALSE, slot_allocated |-> TRUE,
                  next_chunk_id |-> INVALID_CHUNK_ID, prev_chunk_id |-> INVALID_CHUNK_ID]

NoChunkOp == [name |-> "none", busy_before |-> FALSE]

ChunkIdle ==
    /\ chunk_info = FreeChunkInfo
    /\ chunk_op = NoChunkOp

MaxGuards == 2        \* CPGuard objects alive at one time
MaxStack == 2         \* entries followed on one thread's t_cp_stack
MaxEnter == 3         \* entry count of one CP up to which guards are copied or assigned
MaxStores == 2        \* log store slots of one family
MaxLsn == 2           \* the log device of a family holds LSNs 0..MaxLsn
MaxReqs == 2          \* device_truncate calls in one behaviour
MaxAppends == 3       \* async_alloc_write calls in one behaviour
MaxJBoots == 1        \* restarts of the replication device in one behaviour
MaxBlkNum == 2        \* alloc_blks hands out block numbers 1..MaxBlkNum
FirstLsn == 1         \* the LSN of the first append to a log store
MaxOverlap == 2       \* append callbacks of the data journal running at one time
MaxCpFlushes == 2     \* SoloReplDev::cp_flush calls in one behaviour
MaxFound == 1         \* records on the data journal when the replication device is loaded

Guards == 1 .. MaxGuards

NoGuard == [live |-> FALSE, m_cp |-> NULL, m_pushed |-> FALSE, th |-> IO]

\* no CPGuard object exists
GuardIdle == guards = [g \in Guards |-> NoGuard]

\* the components that a specification leaves alone, at rest
FlushIdle == cp_flush_calls = [c \in CpIds |-> 0]

\* a context not set: the default-constructed unique_ptr
NoCtx == <<>>

\* on_switchover_cp was never called and no register_consumer call is in progress;
\* the consumers in regd were registered before, their context set in the first CP
SwitchIdle(regd) ==
    /\ m_cp_cb_table = [k \in Consumers |-> k \in regd]
    /\ m_contexts = [c \in CpIds |-> [k \in Consumers |->
                         IF c = 1 /\ k \in regd THEN <<NULL, 1>> ELSE NoCtx]]
    /\ on_switchover_calls = [c \in CpIds |-> [k \in Consumers |->
                                  IF c = 1 /\ k \in regd THEN 1 ELSE 0]]
    /\ sw_idx = 0
    /\ reg_pc = [k \in Consumers |-> IF k \in regd THEN "done" ELSE "idle"]

\* HomeLogStoreMgr::m_logstore_families, in the order of its constructor
m_logstore_families == <<"DATA", "CTRL">>
Families == {m_logstore_families[i] : i \in 1 .. Len(m_logstore_families)}
Stores == 1 .. MaxStores
Reqs == 1 .. MaxReqs
NoStore == [live |-> FALSE]
NoReq == [made |-> FALSE]

\* the log store service at rest: no device_truncate call made, no store opened
TruncIdle ==
    /\ treqs = [r \in Reqs |-> NoReq]
    /\ tr_calls = 0
    /\ tr_pc = "idle"
    /\ tr_idx = 0
    /\ trunc_q = <<>>
    /\ trunc_stage = "idle"
    /\ fam_stores = [f \in Families |-> [s \in Stores |-> NoStore]]
    /\ fam_start = [f \in Families |-> 0]

\* a replication device just created: its data journal empty
JournalIdle ==
    /\ j_pc = "up"
    /\ j_writes = <<>>
    /\ j_seq = FirstLsn
    /\ j_boot_seq = FirstLsn
    /\ j_buf = <<>>
    /\ j_media = <<>>
    /\ j_cb_q = <<>>
    /\ j_idx = 0
    /\ j_commits = <<>>
    /\ j_fired = {}
    /\ m_commit_upto = -1
    /\ j_appends = 0
    /\ j_boots = 0

\* no append callback and no cp_flush of the replication device under way, its
\* super-block as constructed
NoSb == [commit_lsn |-> -1, checkpoint_lsn |-> -1]
CommitIdle ==
    /\ cb_run = <<>>
    /\ req_steps = <<>>
    /\ cp_pc = "idle"
    /\ cp_lsn = -1
    /\ m_rd_sb = NoSb
    /\ sb_writes = <<>>

LogIdle == TruncIdle /\ JournalIdle /\ CommitIdle

OtherIdle ==
    /\ GuardIdle
    /\ FlushIdle
    /\ SwitchIdle(Consumers)
    /\ LogIdle

\* the state after construction and start(first_time_boot = true)
Init ==
    /\ InitCP
    /\ DmIdle
    /\ ChunkIdle
    /\ OtherIdle

\* an access to a destroyed CP or through a null pointer: undefined behaviour,
\* after which the model makes no statement (the process is gone: no thread steps)
Undefined ==
    /\ ub' = TRUE
    /\ pc' = [t \in Threads |-> "crashed"]
    /\ UNCHANGED <<mgrVars, sbVars, rcu_wait, flush_pending, ioVars, t_cp_stack,
                   localVars, fut, wdVars, histVars, inflight_cp, restVars>>

\* the readers inside an RCU read-side critical section
Readers == {t \in Threads : pc[t] \in {"enter_ref", "cb_ref"}}

\* CPManager::cp_start_flush, reached from cp_io_exit when the status is flush_prepare
StartFlushIfPrepared(c) ==
    IF cps[c].m_cp_status = "cp_flush_prepare"
    THEN /\ cps' = [cps EXCEPT ![c].m_cp_status = "cp_flushing"]
         /\ flush_pending' = [flush_pending EXCEPT ![c] = Consumers]
    ELSE UNCHANGED <<cps, flush_pending>>

\* return of trigger_cp_flush to its caller: a user, the completion lambda, shutdown
ReturnFrom(t, f) ==
    /\ pc' = [pc EXCEPT ![t] = CASE l_ctx[t] = "user" -> "idle"
                                 [] l_ctx[t] = "cb" -> "cb_exit"
                                 [] l_ctx[t] = "sd" -> "sd_wait"]
    /\ fut' = [fut EXCEPT ![t] = IF l_ctx[t] = "cb" THEN @ ELSE f]
    /\ l_force' = [l_force EXCEPT ![t] = FALSE]
    /\ l_ret' = [l_ret EXCEPT ![t] = NoFut]
    /\ l_ctx' = [l_ctx EXCEPT ![t] = "user"]
    /\ l_cp' = [l_cp EXCEPT ![t] = 0]

\* ------------------------------------------------------------- CPGuard
\* CPGuard::CPGuard with an empty t_cp_stack: cp_io_enter up to rcu_dereference
GuardEnter(t) ==
    /\ t \in Users /\ pc[t] = "idle" /\ t_cp_stack[t] = <<>>
    /\ IF m_cur_cp = NULL
       THEN \* cp_io_enter returns nullptr; the guard holds and pushes nullptr
            /\ t_cp_stack' = Push(t, NULL)
            /\ UNCHANGED <<pc, l_cp>>
       ELSE /\ pc' = [pc EXCEPT ![t] = "enter_ref"]
            /\ l_cp' = [l_cp EXCEPT ![t] = m_cur_cp]
            /\ UNCHANGED t_cp_stack
    /\ UNCHANGED <<mgrVars, sbVars, rcu_wait, flush_pending, ioVars, l_force, l_ctx, l_ret,
                   fut, wdVars, histVars, inflight_cp, ub, restVars>>

\* cp_io_enter: cp_ref and rcu_read_unlock, then the push of the guard
GuardRef(t) ==
    /\ t \in Users /\ pc[t] = "enter_ref"
    /\ IF ~Live(l_cp[t])
       THEN Undefined
       ELSE /\ cps' = cp_ref(l_cp[t])
            /\ rcu_wait' = rcu_wait \ {t}
            /\ t_cp_stack' = Push(t, l_cp[t])
            /\ pc' = [pc EXCEPT ![t] = "idle"]
            /\ l_cp' = [l_cp EXCEPT ![t] = 0]
            /\ UNCHANGED <<m_cur_cp, m_in_flush_phase, m_cp_shutdown_initiated,
                           trigger_cp_mtx, sbVars, flush_pending, ioVars, l_force, l_ctx,
                           l_ret, fut, wdVars, histVars, inflight_cp, ub, restVars>>

\* CPGuard::CPGuard with a non-empty t_cp_stack: the nested guard reuses the top
GuardNested(t) ==
    /\ t \in Users /\ pc[t] = "idle"
    /\ t_cp_stack[t] # <<>> /\ Len(t_cp_stack[t]) < MaxNest
    /\ IF ~Live(Top(t))
       THEN Undefined
       ELSE /\ cps' = cp_ref(Top(t))
            /\ t_cp_stack' = Push(t, Top(t))
            /\ UNCHANGED <<m_cur_cp, m_in_flush_phase, m_cp_shutdown_initiated,
                           trigger_cp_mtx, sbVars, rcu_wait, flush_pending, ioVars, pc,
                           localVars, fut, wdVars, histVars, inflight_cp, ub, restVars>>

\* CPGuard::~CPGuard: pop, then cp_io_exit up to decrement_testz
GuardExit(t) ==
    /\ t \in Users /\ pc[t] = "idle" /\ t_cp_stack[t] # <<>>
    /\ IF Top(t) = NULL
       THEN /\ t_cp_stack' = Pop(t)
            /\ UNCHANGED <<mgrVars, sbVars, rcu_wait, flush_pending, ioVars, pc, localVars,
                           fut, wdVars, histVars, inflight_cp, ub, restVars>>
       ELSE IF ~Live(Top(t))
       THEN Undefined
       ELSE /\ t_cp_stack' = Pop(t)
            /\ cps' = cp_dec(Top(t))
            /\ IF cps[Top(t)].m_enter_cnt = 1
               THEN /\ pc' = [pc EXCEPT ![t] = "exit_chk"]
                    /\ l_cp' = [l_cp EXCEPT ![t] = Top(t)]
               ELSE UNCHANGED <<pc, l_cp>>
            /\ UNCHANGED <<m_cur_cp, m_in_flush_phase, m_cp_shutdown_initiated,
                           trigger_cp_mtx, sbVars, rcu_wait, flush_pending, ioVars, l_force,
                           l_ctx, l_ret, fut, wdVars, histVars, inflight_cp, ub, restVars>>

\* cp_io_exit after decrement_testz returned true: the read of m_cp_status
ExitCheck(t) ==
    /\ t \in Users /\ pc[t] = "exit_chk"
    /\ IF ~Live(l_cp[t])
       THEN Undefined
       ELSE /\ StartFlushIfPrepared(l_cp[t])
            /\ pc' = [pc EXCEPT ![t] = "idle"]
            /\ l_cp' = [l_cp EXCEPT ![t] = 0]
            /\ UNCHANGED <<m_cur_cp, m_in_flush_phase, m_cp_shutdown_initiated,
                           trigger_cp_mtx, sbVars, rcu_wait, ioVars, t_cp_stack, l_force,
                           l_ctx, l_ret, fut, wdVars, histVars, inflight_cp, ub, restVars>>

\* ------------------------------------------------------------- trigger_cp_flush
\* cp_guard() of trigger_cp_flush: cp_io_enter, or the nested reuse of the stack top.
\* m_in_flush_phase (line 164) or trigger_cp_mtx (line 149) keeps the pointer from
\* being swapped meanwhile, so the read-side section is one step.
GuardedCp(t) == IF t_cp_stack[t] = <<>> THEN m_cur_cp ELSE Top(t)

\* a user thread (a timer callback, the dirty-buffer callback, an upper layer) calls
\* trigger_cp_flush(force)
TriggerCall(t, force) ==
    /\ t \in Users /\ pc[t] = "idle" /\ t_cp_stack[t] = <<>>
    /\ m_cur_cp # NULL
    /\ pc' = [pc EXCEPT ![t] = "cas"]
    /\ l_force' = [l_force EXCEPT ![t] = force]
    /\ l_ctx' = [l_ctx EXCEPT ![t] = "user"]
    /\ fut' = [fut EXCEPT ![t] = NoFut]
    /\ UNCHANGED <<mgrVars, sbVars, rcu_wait, flush_pending, ioVars, t_cp_stack, l_cp, l_ret,
                   wdVars, histVars, inflight_cp, ub, restVars>>

\* a trigger that goes on to lines 164-165 whatever m_in_flush_phase is
CasWon_NoExchange(t) ==
    /\ pc[t] = "cas"
    /\ m_cur_cp < MaxCP
    /\ IF ~Live(GuardedCp(t))
       THEN Undefined
       ELSE /\ m_in_flush_phase' = TRUE
            /\ inflight_cp' = m_cur_cp
            /\ cps' = [cps EXCEPT ![GuardedCp(t)].m_enter_cnt = @ + 1,
                                  ![GuardedCp(t)].m_cp_status = "cp_trigger"]
            /\ t_cp_stack' = Push(t, GuardedCp(t))
            /\ pc' = [pc EXCEPT ![t] = "t_lock"]
            /\ UNCHANGED <<m_cur_cp, m_cp_shutdown_initiated, trigger_cp_mtx, sbVars,
                           rcu_wait, flush_pending, ioVars, localVars, fut, wdVars,
                           histVars, ub, restVars>>

\* m_in_flush_phase.compare_exchange_strong(false, true) succeeded; lines 164-165:
\* cur_cp = cp_guard(); cur_cp->m_cp_status = cp_trigger
CasWon(t) ==
    /\ pc[t] = "cas"
    /\ ~m_in_flush_phase
    /\ m_cur_cp < MaxCP
    /\ IF ~Live(GuardedCp(t))
       THEN Undefined
       ELSE /\ m_in_flush_phase' = TRUE
            /\ inflight_cp' = m_cur_cp
            /\ cps' = [cps EXCEPT ![GuardedCp(t)].m_enter_cnt = @ + 1,
                                  ![GuardedCp(t)].m_cp_status = "cp_trigger"]
            /\ t_cp_stack' = Push(t, GuardedCp(t))
            /\ pc' = [pc EXCEPT ![t] = "t_lock"]
            /\ UNCHANGED <<m_cur_cp, m_cp_shutdown_initiated, trigger_cp_mtx, sbVars,
                           rcu_wait, flush_pending, ioVars, localVars, fut, wdVars,
                           histVars, ub, restVars>>

\* the exchange failed and force is set: on to the back-to-back branch
CasBusyForce(t) ==
    /\ pc[t] = "cas"
    /\ m_in_flush_phase /\ l_force[t]
    /\ pc' = [pc EXCEPT ![t] = "f_lock"]
    /\ l_ret' = [l_ret EXCEPT ![t] = [NoFut EXCEPT !.inprog = inflight_cp]]
    /\ UNCHANGED <<mgrVars, sbVars, rcu_wait, flush_pending, ioVars, t_cp_stack, l_cp,
                   l_force, l_ctx, fut, wdVars, histVars, inflight_cp, ub, restVars>>

\* a trigger that treats every busy call as a forced one
CasBusyNoForce_AsForced(t) ==
    /\ pc[t] = "cas"
    /\ m_in_flush_phase /\ ~l_force[t]
    /\ pc' = [pc EXCEPT ![t] = "f_lock"]
    /\ l_ret' = [l_ret EXCEPT ![t] = [NoFut EXCEPT !.inprog = inflight_cp]]
    /\ UNCHANGED <<mgrVars, sbVars, rcu_wait, flush_pending, ioVars, t_cp_stack, l_cp,
                   l_force, l_ctx, fut, wdVars, histVars, inflight_cp, ub, restVars>>

\* the exchange failed and force is not set: return makeFuture(false)
CasBusyNoForce(t) ==
    /\ pc[t] = "cas"
    /\ m_in_flush_phase /\ ~l_force[t]
    /\ ReturnFrom(t, FalseFut)
    /\ UNCHANGED <<mgrVars, sbVars, rcu_wait, flush_pending, ioVars, t_cp_stack, wdVars,
                   histVars, inflight_cp, ub, restVars>>

\* lines 171-192 under trigger_cp_mtx: the new CP, the choice of the future,
\* cur_cp->m_cp_status = cp_flush_prepare
TLock(t) ==
    /\ pc[t] = "t_lock"
    /\ trigger_cp_mtx = -1
    /\ Top(t) < MaxCP
    /\ IF ~Live(Top(t))
       THEN Undefined
       ELSE LET cur == Top(t)
                new == cur + 1
                k == cps[cur].m_comp_promise
            IN /\ trigger_cp_mtx' = t
               /\ l_cp' = [l_cp EXCEPT ![t] = new]
               /\ IF cps[cur].m_cp_waiting_to_trigger
                  THEN /\ l_ret' = [l_ret EXCEPT ![t] =
                                       [NoFut EXCEPT !.kind = "true", !.cp = cur]]
                       /\ cps' = [cps EXCEPT ![cur].m_cp_status = "cp_flush_prepare",
                                             ![new] = [NoCP EXCEPT !.alloc = "live"]]
                  ELSE /\ l_ret' = [l_ret EXCEPT ![t] =
                                       [NoFut EXCEPT !.kind = "promise", !.cp = cur,
                                                     !.p = <<cur, k + 1>>]]
                       /\ cps' = [cps EXCEPT ![cur].m_cp_status = "cp_flush_prepare",
                                             ![cur].m_comp_promise = k + 1,
                                             ![new] = [NoCP EXCEPT !.alloc = "live"]]
               /\ pc' = [pc EXCEPT ![t] = "t_swap"]
               /\ UNCHANGED <<m_cur_cp, m_in_flush_phase, m_cp_shutdown_initiated, sbVars,
                              rcu_wait, flush_pending, ioVars, t_cp_stack, l_force, l_ctx,
                              fut, wdVars, histVars, inflight_cp, ub, restVars>>

\* lines 193-194: new_cp->m_cp_status = cp_io_ready; rcu_xchg_pointer(&m_cur_cp, new_cp);
\* synchronize_rcu begins: it waits for the readers inside a read-side section now
TSwap(t) ==
    /\ pc[t] = "t_swap"
    /\ cps' = [cps EXCEPT ![l_cp[t]].m_cp_status = "cp_io_ready"]
    /\ m_cur_cp' = l_cp[t]
    /\ rcu_wait' = Readers
    /\ pc' = [pc EXCEPT ![t] = "t_sync"]
    /\ UNCHANGED <<m_in_flush_phase, m_cp_shutdown_initiated, trigger_cp_mtx, sbVars,
                   flush_pending, ioVars, t_cp_stack, localVars, fut, wdVars, histVars,
                   inflight_cp, ub, restVars>>

\* a trigger_cp_flush that does not wait for the grace period
TSync_NoGracePeriod(t) ==
    /\ pc[t] = "t_sync"
    /\ trigger_cp_mtx' = -1
    /\ pc' = [pc EXCEPT ![t] = "t_exit"]
    /\ l_cp' = [l_cp EXCEPT ![t] = 0]
    /\ UNCHANGED <<m_cur_cp, cps, m_in_flush_phase, m_cp_shutdown_initiated, sbVars,
                   rcu_wait, flush_pending, ioVars, t_cp_stack, l_force, l_ctx, l_ret, fut,
                   wdVars, histVars, inflight_cp, ub, restVars>>

\* line 195-196: synchronize_rcu returns, trigger_cp_mtx is released
TSync(t) ==
    /\ pc[t] = "t_sync"
    /\ rcu_wait = {}
    /\ trigger_cp_mtx' = -1
    /\ pc' = [pc EXCEPT ![t] = "t_exit"]
    /\ l_cp' = [l_cp EXCEPT ![t] = 0]
    /\ UNCHANGED <<m_cur_cp, cps, m_in_flush_phase, m_cp_shutdown_initiated, sbVars,
                   rcu_wait, flush_pending, ioVars, t_cp_stack, l_force, l_ctx, l_ret, fut,
                   wdVars, histVars, inflight_cp, ub, restVars>>

\* line 198: the guard cur_cp goes out of scope: pop, cp_io_exit up to decrement_testz
TExit(t) ==
    /\ pc[t] = "t_exit"
    /\ IF ~Live(Top(t))
       THEN Undefined
       ELSE /\ t_cp_stack' = Pop(t)
            /\ cps' = cp_dec(Top(t))
            /\ IF cps[Top(t)].m_enter_cnt = 1
               THEN /\ pc' = [pc EXCEPT ![t] = "t_exit_chk"]
                    /\ l_cp' = [l_cp EXCEPT ![t] = Top(t)]
                    /\ UNCHANGED <<l_force, l_ctx, l_ret, fut>>
               ELSE ReturnFrom(t, l_ret[t])
            /\ UNCHANGED <<m_cur_cp, m_in_flush_phase, m_cp_shutdown_initiated,
                           trigger_cp_mtx, sbVars, rcu_wait, flush_pending, ioVars, wdVars,
                           histVars, inflight_cp, ub, restVars>>

\* cp_io_exit of that guard after decrement_testz returned true, then return ret_fut
TExitCheck(t) ==
    /\ pc[t] = "t_exit_chk"
    /\ IF ~Live(l_cp[t])
       THEN Undefined
       ELSE /\ StartFlushIfPrepared(l_cp[t])
            /\ ReturnFrom(t, l_ret[t])
            /\ UNCHANGED <<m_cur_cp, m_in_flush_phase, m_cp_shutdown_initiated,
                           trigger_cp_mtx, sbVars, rcu_wait, ioVars, t_cp_stack, wdVars,
                           histVars, inflight_cp, ub, restVars>>

\* lines 148-157 under trigger_cp_mtx: cp_guard(), the shared promise, the flag, and
\* the guard going out of scope.  The mutex keeps the status of the guarded CP from
\* becoming flush_prepare meanwhile, and the guard's increment and decrement are not
\* told apart by any other thread's decrement_testz, so the section is one step.
ForceLocked(t) ==
    /\ pc[t] = "f_lock"
    /\ trigger_cp_mtx = -1
    /\ IF ~Live(GuardedCp(t))
       THEN Undefined
       ELSE LET cur == GuardedCp(t)
                k == IF cps[cur].m_cp_waiting_to_trigger
                     THEN cps[cur].m_comp_promise
                     ELSE cps[cur].m_comp_promise + 1
                last == cps[cur].m_enter_cnt = 0
                        /\ cps[cur].m_cp_status = "cp_flush_prepare"
            IN /\ cps' = [cps EXCEPT ![cur].m_comp_promise = k,
                                     ![cur].m_cp_waiting_to_trigger = TRUE,
                                     ![cur].m_cp_status =
                                         IF last THEN "cp_flushing" ELSE @]
               /\ flush_pending' = IF last
                                   THEN [flush_pending EXCEPT ![cur] = Consumers]
                                   ELSE flush_pending
               /\ ReturnFrom(t, [kind |-> "promise", p |-> <<cur, k>>, cp |-> cur,
                                 forced |-> TRUE, inprog |-> l_ret[t].inprog])
               /\ UNCHANGED <<m_cur_cp, m_in_flush_phase, m_cp_shutdown_initiated,
                              trigger_cp_mtx, sbVars, rcu_wait, ioVars, t_cp_stack, wdVars,
                              histVars, inflight_cp, ub, restVars>>

\* ------------------------------------------------------------- flush completion
\* a consumer's cp_flush future completes; with the last one collectAllUnsafe runs
\* on_cp_flush_done: cp_flush_done, and the lambda is queued on the blocking fiber
ConsumerFlushDone(c, k) ==
    /\ ~ub
    /\ k \in flush_pending[c]
    /\ flush_pending' = [flush_pending EXCEPT ![c] = @ \ {k}]
    /\ IF flush_pending[c] = {k}
       THEN /\ cps' = [cps EXCEPT ![c].m_cp_status = "cp_flush_done"]
            /\ io_q' = Append(io_q, c)
       ELSE UNCHANGED <<cps, io_q>>
    /\ UNCHANGED <<m_cur_cp, m_in_flush_phase, m_cp_shutdown_initiated, trigger_cp_mtx,
                   sbVars, rcu_wait, cb_shutdown_initiated, pc, t_cp_stack, localVars, fut,
                   wdVars, histVars, inflight_cp, ub, restVars>>

\* a completion that bumps m_last_flushed_cp in memory and skips m_sb.write()
CbPersist_NoWrite ==
    /\ pc[IO] = "idle" /\ io_q # <<>>
    /\ io_q' = Tail(io_q)
    /\ l_cp' = [l_cp EXCEPT ![IO] = Head(io_q)]
    /\ m_last_flushed_cp' = m_last_flushed_cp + 1
    /\ sb_disk' = sb_disk
    /\ persisted' = persisted
    /\ pc' = [pc EXCEPT ![IO] = "cb_cleanup"]
    /\ UNCHANGED <<mgrVars, rcu_wait, flush_pending, cb_shutdown_initiated, t_cp_stack,
                   l_force, l_ctx, l_ret, fut, wdVars, resolved, completed, prev_completed,
                   cleaned, restarts, inflight_cp, ub, restVars>>

\* lines 225-226: ++(m_sb->m_last_flushed_cp); m_sb.write()
CbPersist ==
    /\ pc[IO] = "idle" /\ io_q # <<>>
    /\ io_q' = Tail(io_q)
    /\ l_cp' = [l_cp EXCEPT ![IO] = Head(io_q)]
    /\ m_last_flushed_cp' = m_last_flushed_cp + 1
    /\ sb_disk' = m_last_flushed_cp + 1
    /\ persisted' = persisted \cup {Head(io_q)}
    /\ pc' = [pc EXCEPT ![IO] = "cb_cleanup"]
    /\ UNCHANGED <<mgrVars, rcu_wait, flush_pending, cb_shutdown_initiated, t_cp_stack,
                   l_force, l_ctx, l_ret, fut, wdVars, resolved, completed, prev_completed,
                   cleaned, restarts, inflight_cp, ub, restVars>>

\* lines 228-233: cleanup_cp(cp) (cp_cleaning, cp_cleanup on every consumer), then
\* shutdown_initiated = m_cp_shutdown_initiated.load()
CbCleanup ==
    /\ pc[IO] = "cb_cleanup"
    /\ cps' = [cps EXCEPT ![l_cp[IO]].m_cp_status = "cp_cleaning"]
    /\ cleaned' = cleaned \cup {l_cp[IO]}
    /\ cb_shutdown_initiated' = m_cp_shutdown_initiated
    /\ pc' = [pc EXCEPT ![IO] = "cb_delete"]
    /\ UNCHANGED <<m_cur_cp, m_in_flush_phase, m_cp_shutdown_initiated, trigger_cp_mtx,
                   sbVars, rcu_wait, flush_pending, io_q, t_cp_stack, localVars, fut,
                   wdVars, resolved, completed, prev_completed, persisted, restarts,
                   inflight_cp, ub, restVars>>

\* lines 234-237: promise = std::move(cp->m_comp_promise); m_wd_cp->reset_cp(); delete cp
CbDelete ==
    /\ pc[IO] = "cb_delete"
    /\ IF ~wd_alive
       THEN Undefined
       ELSE /\ l_ret' = [l_ret EXCEPT ![IO] =
                            [NoFut EXCEPT !.kind = "promise", !.cp = l_cp[IO],
                                          !.p = <<l_cp[IO], cps[l_cp[IO]].m_comp_promise>>]]
            /\ wd_m_cp' = NULL
            /\ wd_m_progress_pct' = 0
            /\ wd_prev_avg' = -1
            /\ cps' = [cps EXCEPT ![l_cp[IO]].alloc = "freed"]
            /\ pc' = [pc EXCEPT ![IO] = "cb_set"]
            /\ UNCHANGED <<m_cur_cp, m_in_flush_phase, m_cp_shutdown_initiated,
                           trigger_cp_mtx, sbVars, rcu_wait, flush_pending, ioVars,
                           t_cp_stack, l_cp, l_force, l_ctx, fut, wd_alive, wd_elapsed,
                           wd_repaired, wd_stuck, histVars, inflight_cp, ub, restVars>>

\* lines 239-244: promise.setValue(true); if (shutdown_initiated) return
CbSetValue ==
    /\ pc[IO] = "cb_set"
    /\ resolved' = resolved \cup {l_ret[IO].p}
    /\ completed' = completed \cup {l_cp[IO]}
    /\ l_ret' = [l_ret EXCEPT ![IO] = NoFut]
    /\ l_cp' = [l_cp EXCEPT ![IO] = 0]
    /\ cb_shutdown_initiated' = FALSE
    /\ pc' = [pc EXCEPT ![IO] = IF cb_shutdown_initiated THEN "idle" ELSE "cb_clear"]
    /\ UNCHANGED <<mgrVars, sbVars, rcu_wait, flush_pending, io_q, t_cp_stack, l_force,
                   l_ctx, fut, wdVars, prev_completed, persisted, cleaned, restarts,
                   inflight_cp, ub, restVars>>

\* line 245: m_in_flush_phase = false
CbClear ==
    /\ pc[IO] = "cb_clear"
    /\ m_in_flush_phase' = FALSE
    /\ pc' = [pc EXCEPT ![IO] = "cb_guard"]
    /\ UNCHANGED <<m_cur_cp, cps, m_cp_shutdown_initiated, trigger_cp_mtx, sbVars, rcu_wait,
                   flush_pending, ioVars, t_cp_stack, localVars, fut, wdVars, histVars,
                   inflight_cp, ub, restVars>>

\* line 249-250: cur_cp = cp_guard(): cp_io_enter up to rcu_dereference; a null
\* current CP ends the lambda
CbGuard ==
    /\ pc[IO] = "cb_guard"
    /\ IF m_cur_cp = NULL
       THEN /\ pc' = [pc EXCEPT ![IO] = "idle"]
            /\ UNCHANGED l_cp
       ELSE /\ pc' = [pc EXCEPT ![IO] = "cb_ref"]
            /\ l_cp' = [l_cp EXCEPT ![IO] = m_cur_cp]
    /\ UNCHANGED <<mgrVars, sbVars, rcu_wait, flush_pending, ioVars, t_cp_stack, l_force,
                   l_ctx, l_ret, fut, wdVars, histVars, inflight_cp, ub, restVars>>

\* cp_ref and rcu_read_unlock of that cp_io_enter; lines 251-256: m_wd_cp->set_cp,
\* and trigger_cp_flush(false) if m_cp_waiting_to_trigger is set
CbRef ==
    /\ pc[IO] = "cb_ref"
    /\ IF ~Live(l_cp[IO]) \/ ~wd_alive
       THEN Undefined
       ELSE /\ cps' = cp_ref(l_cp[IO])
            /\ rcu_wait' = rcu_wait \ {IO}
            /\ t_cp_stack' = Push(IO, l_cp[IO])
            /\ wd_m_cp' = l_cp[IO]
            /\ wd_elapsed' = 0
            /\ wd_prev_avg' = -1
            /\ l_cp' = [l_cp EXCEPT ![IO] = 0]
            /\ IF cps[l_cp[IO]].m_cp_waiting_to_trigger
               THEN /\ pc' = [pc EXCEPT ![IO] = "cas"]
                    /\ l_ctx' = [l_ctx EXCEPT ![IO] = "cb"]
                    /\ l_force' = [l_force EXCEPT ![IO] = FALSE]
               ELSE /\ pc' = [pc EXCEPT ![IO] = "cb_exit"]
                    /\ UNCHANGED <<l_ctx, l_force>>
            /\ UNCHANGED <<m_cur_cp, m_in_flush_phase, m_cp_shutdown_initiated,
                           trigger_cp_mtx, sbVars, flush_pending, ioVars, l_ret, fut,
                           wd_alive, wd_m_progress_pct, wd_repaired, wd_stuck, histVars,
                           inflight_cp, ub, restVars>>

\* line 257: the lambda's guard goes out of scope: pop, cp_io_exit up to decrement_testz
CbExit ==
    /\ pc[IO] = "cb_exit"
    /\ IF ~Live(Top(IO))
       THEN Undefined
       ELSE /\ t_cp_stack' = Pop(IO)
            /\ cps' = cp_dec(Top(IO))
            /\ IF cps[Top(IO)].m_enter_cnt = 1
               THEN /\ pc' = [pc EXCEPT ![IO] = "cb_exit_chk"]
                    /\ l_cp' = [l_cp EXCEPT ![IO] = Top(IO)]
               ELSE /\ pc' = [pc EXCEPT ![IO] = "idle"]
                    /\ UNCHANGED l_cp
            /\ UNCHANGED <<m_cur_cp, m_in_flush_phase, m_cp_shutdown_initiated,
                           trigger_cp_mtx, sbVars, rcu_wait, flush_pending, ioVars, l_force,
                           l_ctx, l_ret, fut, wdVars, histVars, inflight_cp, ub, restVars>>

\* cp_io_exit of the lambda's guard after decrement_testz returned true
CbExitCheck ==
    /\ pc[IO] = "cb_exit_chk"
    /\ IF ~Live(l_cp[IO])
       THEN Undefined
       ELSE /\ StartFlushIfPrepared(l_cp[IO])
            /\ pc' = [pc EXCEPT ![IO] = "idle"]
            /\ l_cp' = [l_cp EXCEPT ![IO] = 0]
            /\ UNCHANGED <<m_cur_cp, m_in_flush_phase, m_cp_shutdown_initiated,
                           trigger_cp_mtx, sbVars, rcu_wait, ioVars, t_cp_stack, l_force,
                           l_ctx, l_ret, fut, wdVars, histVars, inflight_cp, ub, restVars>>

\* ------------------------------------------------------------- shutdown
FutTrue(f) == f.kind = "true" \/ (f.kind = "promise" /\ f.p \in resolved)

\* lines 75-80: the timer is cancelled, m_cp_shutdown_initiated = true, and
\* trigger_cp_flush(true /* force */) is called
SdStart(t) ==
    /\ t \in Users /\ pc[t] = "idle" /\ t_cp_stack[t] = <<>>
    /\ ~m_cp_shutdown_initiated
    /\ m_cur_cp # NULL
    /\ m_cp_shutdown_initiated' = TRUE
    /\ pc' = [pc EXCEPT ![t] = "cas"]
    /\ l_force' = [l_force EXCEPT ![t] = TRUE]
    /\ l_ctx' = [l_ctx EXCEPT ![t] = "sd"]
    /\ fut' = [fut EXCEPT ![t] = NoFut]
    /\ UNCHANGED <<m_cur_cp, cps, m_in_flush_phase, trigger_cp_mtx, sbVars, rcu_wait,
                   flush_pending, ioVars, t_cp_stack, l_cp, l_ret, wdVars, histVars,
                   inflight_cp, ub, restVars>>

\* line 80-82: .get() returns once the future is resolved
SdGet(t) ==
    /\ pc[t] = "sd_wait"
    /\ FutTrue(fut[t])
    /\ pc' = [pc EXCEPT ![t] = "sd_delete"]
    /\ UNCHANGED <<mgrVars, sbVars, rcu_wait, flush_pending, ioVars, t_cp_stack, localVars,
                   fut, wdVars, histVars, inflight_cp, ub, restVars>>

\* line 84: delete (m_cur_cp)
SdDelete(t) ==
    /\ pc[t] = "sd_delete"
    /\ IF m_cur_cp # NULL /\ ~Live(m_cur_cp)
       THEN Undefined
       ELSE /\ cps' = IF m_cur_cp = NULL
                      THEN cps
                      ELSE [cps EXCEPT ![m_cur_cp].alloc = "freed"]
            /\ pc' = [pc EXCEPT ![t] = "sd_xchg"]
            /\ UNCHANGED <<m_cur_cp, m_in_flush_phase, m_cp_shutdown_initiated,
                           trigger_cp_mtx, sbVars, rcu_wait, flush_pending, ioVars,
                           t_cp_stack, localVars, fut, wdVars, histVars, inflight_cp, ub, restVars>>

\* lines 85-91: rcu_xchg_pointer(&m_cur_cp, nullptr); m_wd_cp->stop(); m_wd_cp.reset()
SdXchg(t) ==
    /\ pc[t] = "sd_xchg"
    /\ m_cur_cp' = NULL
    /\ wd_alive' = FALSE
    /\ wd_m_cp' = NULL
    /\ pc' = [pc EXCEPT ![t] = "sd_done"]
    /\ UNCHANGED <<cps, m_in_flush_phase, m_cp_shutdown_initiated, trigger_cp_mtx, sbVars,
                   rcu_wait, flush_pending, ioVars, t_cp_stack, localVars, fut,
                   wd_m_progress_pct, wd_elapsed, wd_repaired, wd_prev_avg, wd_stuck,
                   histVars, inflight_cp, ub, restVars>>

\* ------------------------------------------------------------- restart
\* the process stops at any point and boots again: on_meta_blk_found loads the
\* super-block and create_first_cp makes the first CP
Restart ==
    /\ ~ub
    /\ restarts < MaxRestarts
    /\ sb_disk < MaxCP
    /\ restarts' = restarts + 1
    /\ prev_completed' = prev_completed \cup completed
    /\ m_cur_cp' = FirstCpId(sb_disk)
    /\ cps' = FirstCps(sb_disk)
    /\ m_in_flush_phase' = FALSE
    /\ m_cp_shutdown_initiated' = FALSE
    /\ trigger_cp_mtx' = -1
    /\ m_last_flushed_cp' = sb_disk
    /\ rcu_wait' = {}
    /\ flush_pending' = [c \in CpIds |-> {}]
    /\ io_q' = <<>>
    /\ pc' = [t \in Threads |-> "idle"]
    /\ t_cp_stack' = [t \in Threads |-> <<>>]
    /\ l_cp' = [t \in Threads |-> 0]
    /\ l_force' = [t \in Threads |-> FALSE]
    /\ l_ctx' = [t \in Threads |-> "user"]
    /\ l_ret' = [t \in Threads |-> NoFut]
    /\ fut' = [t \in Threads |-> NoFut]
    /\ cb_shutdown_initiated' = FALSE
    /\ wd_alive' = TRUE
    /\ wd_m_cp' = NULL
    /\ wd_m_progress_pct' = 0
    /\ wd_elapsed' = 0
    /\ wd_repaired' = {}
    /\ wd_prev_avg' = -1
    /\ wd_stuck' = FALSE
    /\ resolved' = {}
    /\ completed' = {}
    /\ inflight_cp' = 0
    /\ UNCHANGED <<sb_disk, persisted, cleaned, ub, restVars>>

\* ------------------------------------------------------------- CPWatchdog
\* CPCallbacks::cp_progress_percent of consumer k for the watched CP: 100 once the
\* consumer's cp_flush future has completed, 0 before
cp_progress_percent(k) ==
    IF cps[wd_m_cp].m_cp_status \in {"cp_flushing", "cp_flush_done", "cp_cleaning"}
       /\ k \notin flush_pending[wd_m_cp]
    THEN 100
    ELSE 0

RECURSIVE SumPct(_)
SumPct(S) ==
    IF S = {} THEN 0
    ELSE LET k == CHOOSE x \in S : TRUE
         IN cp_progress_percent(k) + SumPct(S \ {k})

\* cum_pct / count of cp_watchdog_timer
AvgPct == SumPct(Consumers) \div NumConsumers

\* the first consumer, in table order, whose progress is not 100
FirstSlow == CHOOSE k \in Consumers :
                 /\ cp_progress_percent(k) # 100
                 /\ \A j \in Consumers : cp_progress_percent(j) # 100 => k <= j

\* CPWatchdog::cp_watchdog_timer, once per timer interval; wd_elapsed counts the
\* intervals since set_cp and is followed up to limit
WatchdogTimer(limit) ==
    /\ ~ub
    /\ wd_alive
    /\ wd_elapsed < limit
    /\ IF wd_m_cp = NULL
       THEN UNCHANGED vars
       ELSE IF ~Live(wd_m_cp)
       THEN Undefined
       ELSE LET status == cps[wd_m_cp].m_cp_status
                elapsed == wd_elapsed + 1
            IN /\ wd_elapsed' = elapsed
               /\ wd_prev_avg' = AvgPct
               /\ IF (status # "cp_flush_prepare") \/ (status # "cp_flushing")
                  THEN /\ wd_repaired' = {}
                       /\ UNCHANGED <<wd_m_progress_pct, wd_stuck>>
                  ELSE IF wd_m_progress_pct > AvgPct
                  THEN /\ wd_m_progress_pct' = AvgPct
                       /\ wd_repaired' = {}
                       /\ UNCHANGED wd_stuck
                  ELSE IF elapsed < max_time_multiplier
                  THEN IF \E k \in Consumers : cp_progress_percent(k) # 100
                       THEN /\ wd_repaired' = {FirstSlow}
                            /\ UNCHANGED <<wd_m_progress_pct, wd_stuck>>
                       ELSE /\ wd_stuck' = TRUE
                            /\ wd_repaired' = {}
                            /\ UNCHANGED wd_m_progress_pct
                  ELSE /\ wd_repaired' = {}
                       /\ UNCHANGED <<wd_m_progress_pct, wd_stuck>>
               /\ UNCHANGED <<mgrVars, sbVars, rcu_wait, flush_pending, ioVars, pc,
                              t_cp_stack, localVars, fut, wd_alive, wd_m_cp, histVars,
                              inflight_cp, ub, restVars>>

\* the timer callback of the watchdog
cp_watchdog_timer == WatchdogTimer(MaxTicks)

\* the timer callback while the watched CP is being flushed, followed beyond the
\* ceiling of max_time_multiplier intervals
FlushStalledTimer ==
    /\ wd_m_cp # NULL /\ Live(wd_m_cp)
    /\ cps[wd_m_cp].m_cp_status \in {"cp_flush_prepare", "cp_flushing"}
    /\ WatchdogTimer(MaxStallTicks)

\* ------------------------------------------------------------- specification
\* the steps of the checkpoint manager and of its callers
Core ==
    \/ \E t \in Users : GuardEnter(t)
    \/ \E t \in Users : GuardRef(t)
    \/ \E t \in Users : GuardNested(t)
    \/ \E t \in Users : GuardExit(t)
    \/ \E t \in Users : ExitCheck(t)
    \/ \E t \in Users, force \in BOOLEAN : TriggerCall(t, force)
    \/ \E t \in Threads : CasWon(t)
    \/ \E t \in Users : CasBusyForce(t)
    \/ \E t \in Threads : CasBusyNoForce(t)
    \/ \E t \in Threads : TLock(t)
    \/ \E t \in Threads : TSwap(t)
    \/ \E t \in Threads : TSync(t)
    \/ \E t \in Threads : TExit(t)
    \/ \E t \in Threads : TExitCheck(t)
    \/ \E t \in Users : ForceLocked(t)
    \/ \E c \in CpIds, k \in Consumers : ConsumerFlushDone(c, k)
    \/ CbPersist
    \/ CbCleanup
    \/ CbDelete
    \/ CbSetValue
    \/ CbClear
    \/ CbGuard
    \/ CbRef
    \/ CbExit
    \/ CbExitCheck
    \/ \E t \in Users : SdStart(t)
    \/ \E t \in Users : SdGet(t)
    \/ \E t \in Users : SdDelete(t)
    \/ \E t \in Users : SdXchg(t)

\* the checkpoint manager with crashes and restarts
Next == Core \/ Restart

Spec == Init /\ [][Next]_vars

\* the checkpoint manager with its watchdog timer, the guards of a thread not nested
NextWD ==
    \/ \E t \in Users : GuardEnter(t)
    \/ \E t \in Users : GuardRef(t)
    \/ \E t \in Users : GuardExit(t)
    \/ \E t \in Users : ExitCheck(t)
    \/ \E t \in Users, force \in BOOLEAN : TriggerCall(t, force)
    \/ \E t \in Threads : CasWon(t)
    \/ \E t \in Users : CasBusyForce(t)
    \/ \E t \in Threads : CasBusyNoForce(t)
    \/ \E t \in Threads : TLock(t)
    \/ \E t \in Threads : TSwap(t)
    \/ \E t \in Threads : TSync(t)
    \/ \E t \in Threads : TExit(t)
    \/ \E t \in Threads : TExitCheck(t)
    \/ \E t \in Users : ForceLocked(t)
    \/ \E c \in CpIds, k \in Consumers : ConsumerFlushDone(c, k)
    \/ CbPersist
    \/ CbCleanup
    \/ CbDelete
    \/ CbSetValue
    \/ CbClear
    \/ CbGuard
    \/ CbRef
    \/ CbExit
    \/ CbExitCheck
    \/ \E t \in Users : SdStart(t)
    \/ \E t \in Users : SdGet(t)
    \/ \E t \in Users : SdDelete(t)
    \/ \E t \in Users : SdXchg(t)
    \/ cp_watchdog_timer

SpecWD == Init /\ [][NextWD]_vars

\* unforced triggers and flushes whose consumers may take arbitrarily long, with the
\* watchdog sampling the CP being flushed
NextStall ==
    \/ \E t \in Users : TriggerCall(t, FALSE)
    \/ \E t \in Threads : CasWon(t)
    \/ \E t \in Threads : CasBusyNoForce(t)
    \/ \E t \in Threads : TLock(t)
    \/ \E t \in Threads : TSwap(t)
    \/ \E t \in Threads : TSync(t)
    \/ \E t \in Threads : TExit(t)
    \/ \E t \in Threads : TExitCheck(t)
    \/ \E c \in CpIds, k \in Consumers : ConsumerFlushDone(c, k)
    \/ CbPersist
    \/ CbCleanup
    \/ CbDelete
    \/ CbSetValue
    \/ CbClear
    \/ CbGuard
    \/ CbRef
    \/ CbExit
    \/ CbExitCheck
    \/ FlushStalledTimer

SpecStall == Init /\ [][NextStall]_vars

\* ------------------------------------------------------------- properties
\* thread t has a CPGuard on CP c in its thread-local stack
Holds(t, c) == \E i \in 1..Len(t_cp_stack[t]) : t_cp_stack[t][i] = c

\* a producer, not inside trigger_cp_flush or shutdown, has entered CP c and not left it
ProducerIn(c) == \E t \in Users : pc[t] = "idle" /\ Holds(t, c)

\* the steps the CP manager and the operations already in flight take by themselves:
\* no new trigger_cp_flush or shutdown call, no new cp_io_enter or CPGuard
Internal ==
    \/ \E t \in Users : GuardRef(t)
    \/ \E t \in Users : GuardExit(t)
    \/ \E t \in Users : ExitCheck(t)
    \/ \E t \in Threads : CasWon(t)
    \/ \E t \in Users : CasBusyForce(t)
    \/ \E t \in Threads : CasBusyNoForce(t)
    \/ \E t \in Threads : TLock(t)
    \/ \E t \in Threads : TSwap(t)
    \/ \E t \in Threads : TSync(t)
    \/ \E t \in Threads : TExit(t)
    \/ \E t \in Threads : TExitCheck(t)
    \/ \E t \in Users : ForceLocked(t)
    \/ \E c \in CpIds, k \in Consumers : ConsumerFlushDone(c, k)
    \/ CbPersist
    \/ CbCleanup
    \/ CbDelete
    \/ CbSetValue
    \/ CbClear
    \/ CbGuard
    \/ CbRef
    \/ CbExit
    \/ CbExitCheck
    \/ \E t \in Users : SdGet(t)
    \/ \E t \in Users : SdDelete(t)
    \/ \E t \in Users : SdXchg(t)

\* C1: trigger_cp_flush(force=false) called while the in-flush flag is set returns an
\* already resolved future with value false and changes nothing: the current-CP
\* pointer, every CP's status, entry count and waiting-to-trigger flag, the flag
\* itself and the super-block are as before the call.
C1_BusyNoForceReturnsFalse ==
    [][\A t \in Threads :
          (/\ pc[t] = "cas" /\ ~l_force[t] /\ m_in_flush_phase
           /\ pc'[t] # "cas" /\ restarts' = restarts /\ ~ub')
          => /\ l_ctx[t] = "user" => (fut'[t] = FalseFut /\ pc'[t] = "idle")
             /\ UNCHANGED <<m_cur_cp, cps, m_in_flush_phase, trigger_cp_mtx, sbVars,
                            flush_pending, io_q, t_cp_stack, resolved>>]_vars

\* a caller holds the false future while the flush that refused it is still going on
C1_Witness ==
    \E t \in Users : pc[t] = "idle" /\ fut[t] = FalseFut /\ m_in_flush_phase /\ ~ub

\* C2: all trigger_cp_flush(true) calls made during one in-progress flush get futures
\* of one shared promise, and that promise is resolved only when the back-to-back CP
\* (the one after the CP in progress) has completed, after the CP in progress has.
C2_ForcersShareBackToBackPromise ==
    /\ \A t1, t2 \in Users :
          (fut[t1].forced /\ fut[t2].forced /\ fut[t1].inprog = fut[t2].inprog)
          => fut[t1].p = fut[t2].p
    /\ \A t \in Users :
          (fut[t].forced /\ FutTrue(fut[t]))
          => {fut[t].inprog, fut[t].inprog + 1} \subseteq completed

\* C3: a CP is in cp_flushing (cp_flush has been called on the consumers) only when
\* its entry count is zero and no producer that entered it is still inside.
C3_FlushOnlyWhenAllExited ==
    \A c \in CpIds :
        (Live(c) /\ cps[c].m_cp_status = "cp_flushing")
        => (cps[c].m_enter_cnt = 0 /\ ~ProducerIn(c))

C6_TrueOnlyAfterFlushCompleted ==
    \A t \in Users :
        (pc[t] = "idle" /\ FutTrue(fut[t]) /\ ~ub)
        => (fut[t].cp \in persisted /\ fut[t].cp \in cleaned /\ fut[t].cp \in completed)

\* C7: a forced trigger requested during a flush is followed, without any further
\* external call, by another flush that resolves the forcers' future: while that
\* future is unresolved the CP manager always has a step of its own to take.
C7_ForcedTriggerIsRearmed ==
    (/\ ~ub /\ ~m_cp_shutdown_initiated
     /\ m_cur_cp # NULL /\ m_cur_cp < MaxCP
     /\ \E t \in Users : pc[t] = "idle" /\ fut[t].forced /\ ~FutTrue(fut[t]))
    => ENABLED Internal

\* C8: shutdown() terminates: while it waits in .get() for the future of its forced
\* trigger, the CP manager always has a step of its own to take towards resolving it.
C8_ShutdownTerminates ==
    (/\ ~ub
     /\ m_cur_cp # NULL /\ m_cur_cp < MaxCP
     /\ \E t \in Users : pc[t] = "sd_wait" /\ ~FutTrue(fut[t]))
    => ENABLED Internal

\* C9: no cp_io_enter, CPGuard or watchdog access reaches a destroyed CP: a destroyed
\* CP is in no guard stack, is not the watched CP, and no thread dereferences it.
C9_NoAccessToDestroyedCp ==
    /\ ~ub
    /\ \A c \in CpIds :
          cps[c].alloc = "freed"
          => /\ \A t \in Threads : ~Holds(t, c)
             /\ \A t \in Threads :
                   pc[t] \in {"enter_ref", "cb_ref", "exit_chk", "t_exit_chk", "cb_exit_chk"}
                   => l_cp[t] # c
             /\ wd_m_cp # c

\* C10: when the timer fires with the watched CP in cp_flush_prepare or cp_flushing and
\* the average progress equal to the previous sample, repair_slow_cp is called on
\* every consumer whose cp_progress_percent is below 100.
C10_WatchdogRepairsSlowConsumers ==
    [][(/\ wd_elapsed' = wd_elapsed + 1
        /\ wd_m_cp # NULL /\ Live(wd_m_cp)
        /\ cps[wd_m_cp].m_cp_status \in {"cp_flush_prepare", "cp_flushing"}
        /\ wd_prev_avg = AvgPct)
       => wd_repaired' = {k \in Consumers : cp_progress_percent(k) < 100}]_vars

\* C11: the watchdog raises the "cp seems to be stuck" assertion only at or beyond
\* max_time_multiplier intervals since the last state change, and a timer sample at
\* or beyond that ceiling that finds the watched CP in cp_flush_prepare or
\* cp_flushing with no progress since the previous sample raises it.
C11_StuckAssertedAtCeiling ==
    [][/\ wd_stuck' => wd_elapsed' >= max_time_multiplier
       /\ (/\ wd_elapsed' = wd_elapsed + 1
           /\ wd_elapsed' >= max_time_multiplier
           /\ wd_m_cp # NULL /\ Live(wd_m_cp)
           /\ cps[wd_m_cp].m_cp_status \in {"cp_flush_prepare", "cp_flushing"}
           /\ wd_prev_avg = AvgPct)
          => wd_stuck']_vars

-----------------------------------------------------------------------------
\* DeviceManager: construction, format_devices, load_devices, create_vdev.

\* sisl::round_up(a, b): the least multiple of b that is not below a
round_up(a, b) == ((a + b - 1) \div b) * b

Min(a, b) == IF a < b THEN a ELSE b

\* a search that does not look at the bits: it always answers bit 0
get_next_reset_bit_Blind(bm, size) == 0

\* sisl::Bitset::get_next_reset_bit(0) over a bitmap of `size` bits, of which `bm` are set
get_next_reset_bit(bm, size) ==
    IF \A i \in 0 .. (size - 1) : i \in bm
    THEN npos
    ELSE CHOOSE i \in 0 .. (size - 1) : i \notin bm /\ \A j \in 0 .. (i - 1) : j \in bm

RECURSIVE next_reset_bits(_, _, _)
\* the ids that n successive get_next_reset_bit/set_bit pairs hand out, in order;
\* shorter than n when the bitmap fills up
next_reset_bits(bm, size, n) ==
    IF n = 0 \/ get_next_reset_bit(bm, size) = npos
    THEN <<>>
    ELSE LET id == get_next_reset_bit(bm, size)
         IN  <<id>> \o next_reset_bits(bm \cup {id}, size, n - 1)

num_streams(d) == dm_disk[d].hw.num_streams                 \* PhysicalDev::num_streams
max_chunks_in_pdev(d) == dm_disk[d].hw.max_chunks           \* hs_super_blk::max_chunks_in_pdev
read_first_block(disk, d) == disk[d].fb                     \* PhysicalDev::read_first_block

Range(seq) == {seq[i] : i \in 1 .. Len(seq)}

\* the devices of one tier, in the order of devs
OfType(devs, ty) == SelectSeq(devs, LAMBDA d : dm_disk[d].hw.dev_type = ty)

\* DeviceManager::DeviceManager over the devices devs: the header of the first device
\* that has a valid first block, and whether there is none
FirstValid(disk, devs) ==
    IF \E i \in 1 .. Len(devs) : read_first_block(disk, devs[i]).valid
    THEN devs[CHOOSE i \in 1 .. Len(devs) :
                  /\ read_first_block(disk, devs[i]).valid
                  /\ \A j \in 1 .. (i - 1) : ~read_first_block(disk, devs[j]).valid]
    ELSE 0

Construct(disk, devs) ==
    /\ m_dev_infos' = devs
    /\ m_first_time_boot' = (FirstValid(disk, devs) = 0)
    /\ m_first_blk_hdr' =
           IF FirstValid(disk, devs) # 0
              /\ read_first_block(disk, FirstValid(disk, devs)).hdr.gen_number
                     > BlankHdr.gen_number
           THEN read_first_block(disk, FirstValid(disk, devs)).hdr
           ELSE BlankHdr
    /\ m_all_pdevs' = [i \in 0 .. (MaxDevs - 1) |-> 0]
    /\ m_pdevs_by_type' = [ty \in DevTypes |-> <<>>]
    /\ m_vdev_id_bm' = {}
    /\ m_chunk_id_bm' = {}
    /\ m_vdevs' = [v \in VdevIds |-> NoVdev]
    /\ m_chunks' = [c \in ChunkIds |-> NoChunk]
    /\ dm_pc' = "constructed"
    /\ dm_last' = NoCreate
    /\ dm_handles' = {}

\* the topology the device manager holds in memory
Topology ==
    [pdevs  |-> m_all_pdevs,
     vdevs  |-> {m_vdevs[v].info : v \in {w \in VdevIds : m_vdevs[w].live}},
     vbm    |-> m_vdev_id_bm,
     cbm    |-> m_chunk_id_bm,
     chunks |-> {<<c, m_chunks[c].vdev_id, m_chunks[c].dev>> :
                     c \in {k \in ChunkIds : m_chunks[k].live}},
     owned  |-> [v \in VdevIds |-> IF m_vdevs[v].live THEN m_vdevs[v].chunks ELSE {}]]

\* DeviceManager::format_devices, on a first-time boot
format_devices ==
    /\ dm_pc = "constructed"
    /\ m_first_time_boot
    /\ LET hdr == [version |-> CURRENT_SUPERBLOCK_VERSION,
                   gen_number |-> m_first_blk_hdr.gen_number + 1,
                   num_pdevs |-> Len(m_dev_infos),
                   system_uuid |-> HomeUuid]
           \* populate_pdev_info: pinfo.pdev_id = m_cur_pdev_id++
           pdev_id(d) == (CHOOSE i \in 1 .. Len(m_dev_infos) : m_dev_infos[i] = d) - 1
       IN  /\ m_first_blk_hdr' = hdr
           /\ dm_disk' = [d \in AllDevs |->
                  IF d \in Range(m_dev_infos)
                  THEN [hw |-> dm_disk[d].hw,
                        fb |-> [valid |-> TRUE, hdr |-> hdr, pdev_id |-> pdev_id(d),
                                system_uuid |-> hdr.system_uuid],
                        vdevs |-> [v \in VdevIds |-> NoVinfo],
                        chunks |-> {}]
                  ELSE dm_disk[d]]
           /\ m_pdevs_by_type' = [ty \in DevTypes |-> OfType(m_dev_infos, ty)]
           /\ m_all_pdevs' = [i \in 0 .. (MaxDevs - 1) |->
                  IF i < Len(m_dev_infos) THEN m_dev_infos[i + 1] ELSE 0]
    /\ dm_pc' = "ready"
    /\ UNCHANGED <<m_dev_infos, m_first_time_boot, m_vdev_id_bm, m_chunk_id_bm, m_vdevs,
                   m_chunks, dm_last, dm_handles, dm_issued, dm_snap, dm_creates,
                   dm_boots, cpVars, chunkVars, auxVars>>

\* the callback that keeps every chunk, whether its vdev is known or not
LoadChunkKept_Always(vdevs, chunk) == TRUE

\* the callback load_vdevs passes to PhysicalDev::load_chunks: true when the chunk is kept
LoadChunkKept(vdevs, chunk) == vdevs[chunk.vdev_id].live

\* DeviceManager::read_vdev_infos: the allocated slots of the vdev table of pdevs[0]
read_vdev_infos(pdevs) ==
    {dm_disk[pdevs[1]].vdevs[v] : v \in {w \in VdevIds : dm_disk[pdevs[1]].vdevs[w].slot_allocated}}

\* a load that reads the vdev table of the Data tier only
LoadedVinfos_DataOnly(by_type) == read_vdev_infos(by_type["Data"])

\* the vdev records load_vdevs reads, over every tier that has devices
LoadedVinfos(by_type) ==
    UNION {read_vdev_infos(by_type[ty]) : ty \in {t \in DevTypes : by_type[t] # <<>>}}

\* the chunk records PhysicalDev::load_chunks visits on the loaded devices
DiskChunks(devs) == UNION {dm_disk[d].chunks : d \in Range(devs)}

\* load_devices without the per-device uuid check
LoadChecksPass_NoUuid ==
    /\ m_first_blk_hdr.version = CURRENT_SUPERBLOCK_VERSION
    /\ m_first_blk_hdr.num_pdevs = Len(m_dev_infos)

\* the three RELEASE_ASSERTs of load_devices hold
LoadChecksPass ==
    /\ m_first_blk_hdr.version = CURRENT_SUPERBLOCK_VERSION
    /\ m_first_blk_hdr.num_pdevs = Len(m_dev_infos)
    /\ \A d \in Range(m_dev_infos) :
           read_first_block(dm_disk, d).system_uuid = m_first_blk_hdr.system_uuid

\* DeviceManager::load_devices with load_vdevs, on a boot that found a valid first block
load_devices ==
    /\ dm_pc = "constructed"
    /\ ~m_first_time_boot
    /\ IF ~LoadChecksPass
       THEN /\ dm_pc' = "fatal"
            /\ UNCHANGED <<m_pdevs_by_type, m_all_pdevs, m_vdev_id_bm, m_chunk_id_bm,
                           m_vdevs, m_chunks, dm_handles>>
       ELSE LET by_type == [ty \in DevTypes |-> OfType(m_dev_infos, ty)]
                vinfos == LoadedVinfos(by_type)
                vdevs == [v \in VdevIds |->
                    IF \E vi \in vinfos : vi.vdev_id = v
                    THEN [live |-> TRUE,
                          info |-> CHOOSE vi \in vinfos : vi.vdev_id = v,
                          chunks |-> {},
                          obj |-> [boot |-> dm_boots, n |-> v]]
                    ELSE NoVdev]
                kept == {ch \in DiskChunks(m_dev_infos) : LoadChunkKept(vdevs, ch)}
                \* m_chunks[chunk_id] = chunk: of two chunks with one id the later stays
                last(c) == CHOOSE ch \in kept :
                    /\ ch.chunk_id = c
                    /\ \A o \in kept : o.chunk_id = c => o.uid <= ch.uid
            IN  /\ dm_pc' = "ready"
                /\ m_pdevs_by_type' = by_type
                /\ m_all_pdevs' = [i \in 0 .. (MaxDevs - 1) |->
                       IF \E d \in Range(m_dev_infos) : read_first_block(dm_disk, d).pdev_id = i
                       THEN CHOOSE d \in Range(m_dev_infos) :
                                read_first_block(dm_disk, d).pdev_id = i
                       ELSE 0]
                /\ m_vdev_id_bm' = {vi.vdev_id : vi \in vinfos}
                /\ m_chunk_id_bm' = {ch.chunk_id : ch \in kept}
                /\ m_chunks' = [c \in ChunkIds |->
                       IF \E ch \in kept : ch.chunk_id = c THEN last(c) ELSE NoChunk]
                /\ m_vdevs' = [v \in VdevIds |->
                       IF vdevs[v].live
                       THEN [vdevs[v] EXCEPT
                                 !.chunks = {ch.uid : ch \in {k \in kept : k.vdev_id = v}}]
                       ELSE NoVdev]
                /\ dm_handles' = {[vdev_id |-> v, obj |-> vdevs[v].obj] :
                                      v \in {w \in VdevIds : vdevs[w].live}}
    /\ UNCHANGED <<m_dev_infos, m_first_blk_hdr, m_first_time_boot, dm_disk, dm_last,
                   dm_issued, dm_snap, dm_creates, dm_boots, cpVars, chunkVars, auxVars>>

\* the inputs of create_vdev the model draws from
VdevParams == [multi_pdev_opts : Policies, num_chunks : 1 .. MaxNumChunks,
               vdev_size : 1 .. MaxVdevSize, blk_size : 1 .. MaxBlkSize,
               dev_type : DevTypes]

\* a lookup that answers with the Data tier whatever tier is asked for
pdevs_by_type_internal_DataOnly(dtype) == m_pdevs_by_type["Data"]

\* DeviceManager::pdevs_by_type_internal: the tier asked for, else the Data tier
pdevs_by_type_internal(dtype) ==
    IF m_pdevs_by_type[dtype] # <<>> THEN m_pdevs_by_type[dtype] ELSE m_pdevs_by_type["Data"]

\* create_vdev, the devices the vdev is placed on
ChosenPdevs(vparam) ==
    IF vparam.multi_pdev_opts \in {"STRIPED", "MIRRORED"}
    THEN pdevs_by_type_internal(vparam.dev_type)
    ELSE <<pdevs_by_type_internal(vparam.dev_type)[1]>>

RECURSIVE total_streams(_)
\* std::accumulate of num_streams() over the devices
total_streams(pdevs) ==
    IF pdevs = <<>> THEN 0 ELSE num_streams(Head(pdevs)) + total_streams(Tail(pdevs))

\* create_vdev, num_chunks after the adjustment for the placement policy
PolicyNumChunks(vparam) ==
    LET pdevs == pdevs_by_type_internal(vparam.dev_type)
    IN  CASE vparam.multi_pdev_opts = "STRIPED" ->
                 round_up(vparam.num_chunks, total_streams(pdevs))
          [] vparam.multi_pdev_opts = "MIRRORED" ->
                 round_up(vparam.num_chunks, num_streams(pdevs[1])) * Len(pdevs)
          [] OTHER -> vparam.num_chunks

RECURSIVE SumMaxChunks(_)
\* the sum of max_chunks_in_pdev over the devices
SumMaxChunks(devs) ==
    IF devs = <<>> THEN 0 ELSE max_chunks_in_pdev(Head(devs)) + SumMaxChunks(Tail(devs))

max_num_chunks == SumMaxChunks(m_dev_infos)

\* create_vdev, num_chunks after the cap to what the system can hold
AdjustedNumChunks(vparam) == Min(PolicyNumChunks(vparam), max_num_chunks)

AdjustedVdevSize(vparam) ==
    round_up(vparam.vdev_size, AdjustedNumChunks(vparam) * vparam.blk_size)

ChunkSize(vparam) == AdjustedVdevSize(vparam) \div AdjustedNumChunks(vparam)

\* populate_vdev_info, the fields of vdev_info that bear on the topology
populate_vdev_info(vparam, vdev_id, pdevs) ==
    [slot_allocated |-> TRUE,
     vdev_id |-> vdev_id,
     vdev_size |-> AdjustedVdevSize(vparam),
     num_mirrors |-> IF vparam.multi_pdev_opts = "MIRRORED" THEN Len(pdevs) ELSE 0,
     num_primary_chunks |-> IF vparam.multi_pdev_opts = "STRIPED" THEN Len(pdevs) ELSE 1]

\* PhysicalDev::create_chunks: one chunk of chunk_size per chunk id, owned by vdev_id,
\* written to the chunk table of the device; the chunks are new objects, numbered from
\* first_uid + 1
create_chunks(dev, chunk_ids, vdev_id, chunk_size, first_uid) ==
    {[live |-> TRUE, chunk_id |-> chunk_ids[j], vdev_id |-> vdev_id, dev |-> dev,
      chunk_size |-> chunk_size, uid |-> first_uid + j] : j \in 1 .. Len(chunk_ids)}

\* chunk records that stay in memory and are not on the devices when create_chunks returns
write_chunk_records_Deferred(disk, chunks) == disk

\* PhysicalDev::create_chunks, the write of the chunk records to the chunk table of their
\* device, done before create_chunks returns
write_chunk_records(disk, chunks) ==
    [d \in AllDevs |-> [disk[d] EXCEPT !.chunks = @ \cup {ch \in chunks : ch.dev = d}]]

\* create_vdev up to the vdev-info write: the vdev id, the vdev object, the chunk ids and
\* the chunks, which PhysicalDev::create_chunks persists one device at a time
create_vdev_upto(vparam, upto) ==
    /\ dm_pc = "ready"
    /\ dm_creates < MaxCreates \/ get_next_reset_bit(m_vdev_id_bm, MAX_VDEVS) = npos
    /\ LET vdev_id == get_next_reset_bit(m_vdev_id_bm, MAX_VDEVS)
           pdevs == ChosenPdevs(vparam)
           per_pdev == AdjustedNumChunks(vparam) \div Len(pdevs)
           ids == next_reset_bits(m_chunk_id_bm, MAX_CHUNKS_IN_SYSTEM, per_pdev * Len(pdevs))
           short == Len(ids) < per_pdev * Len(pdevs)
           \* the devices whose chunk ids were all allocated before the bitmap ran out
           reached == IF short THEN Len(ids) \div per_pdev ELSE Len(pdevs)
           \* the process dies once create_chunks has returned for the upto-th device
           crash == upto < Len(pdevs) /\ upto <= reached
           done == IF crash THEN upto ELSE reached
           \* the chunk_ids vector of the k-th device
           chunk_ids(k) == SubSeq(ids, (k - 1) * per_pdev + 1, k * per_pdev)
           chunks == UNION {create_chunks(pdevs[k], chunk_ids(k), vdev_id, ChunkSize(vparam),
                                          dm_creates * (MAX_CHUNKS_IN_SYSTEM + 1)
                                              + (k - 1) * per_pdev) : k \in 1 .. done}
           vinfo == populate_vdev_info(vparam, vdev_id, pdevs)
           computed == [vdev_id |-> vdev_id, pdevs |-> pdevs, vinfo |-> vinfo,
                        mirrored |-> vparam.multi_pdev_opts = "MIRRORED",
                        striped |-> vparam.multi_pdev_opts = "STRIPED",
                        num_chunks |-> AdjustedNumChunks(vparam),
                        chunk_size |-> ChunkSize(vparam),
                        total_streams |-> total_streams(pdevs),
                        obj |-> [boot |-> -1, n |-> dm_creates]]
       IN  IF vdev_id = npos
           THEN /\ dm_last' = [status |-> "out_of_range", what |-> "vdev"]
                /\ UNCHANGED <<m_vdev_id_bm, m_chunk_id_bm, m_vdevs, m_chunks, dm_disk,
                               dm_pc, dm_issued, dm_creates>>
           ELSE /\ m_vdev_id_bm' = m_vdev_id_bm \cup {vdev_id}
                /\ m_chunk_id_bm' = m_chunk_id_bm \cup
                       (IF crash THEN Range(SubSeq(ids, 1, done * per_pdev)) ELSE Range(ids))
                /\ m_vdevs' = [m_vdevs EXCEPT ![vdev_id] =
                       [live |-> TRUE, info |-> vinfo,
                        chunks |-> {ch.uid : ch \in chunks}, obj |-> computed.obj]]
                /\ m_chunks' = [c \in ChunkIds |->
                       IF \E ch \in chunks : ch.chunk_id = c
                       THEN CHOOSE ch \in chunks : ch.chunk_id = c
                       ELSE m_chunks[c]]
                /\ dm_disk' = write_chunk_records(dm_disk, chunks)
                /\ dm_issued' = dm_issued \cup {<<ch.chunk_id, ch.uid>> : ch \in chunks}
                /\ dm_creates' = dm_creates + 1
                /\ IF crash
                   THEN /\ dm_last' = computed @@ [status |-> "crashed", what |-> "chunk"]
                        /\ dm_pc' = "crashed"
                   ELSE IF short
                   THEN /\ dm_last' = computed @@
                                        [status |-> "out_of_range", what |-> "chunk"]
                        /\ dm_pc' = "ready"
                   ELSE /\ dm_last' = computed @@ [status |-> "creating", what |-> "none"]
                        /\ dm_pc' = "creating"
    /\ UNCHANGED <<m_dev_infos, m_first_blk_hdr, m_first_time_boot, m_all_pdevs,
                   m_pdevs_by_type, dm_handles, dm_snap, dm_boots, cpVars, chunkVars, auxVars>>

\* create_vdev up to the vdev-info write, run to the end of the chunk loop
create_vdev_chunks(vparam) == create_vdev_upto(vparam, MaxDevs)

\* create_vdev from the vdev-info write on: the write loop over the first upto devices of the
\* vdev, and the return of the vdev when the loop has run to its end
create_vdev_write_upto(upto) ==
    /\ dm_pc = "creating"
    /\ dm_disk' = [d \in AllDevs |->
           IF \E k \in 1 .. Min(upto, Len(dm_last.pdevs)) : dm_last.pdevs[k] = d
           THEN [dm_disk[d] EXCEPT !.vdevs[dm_last.vdev_id] = dm_last.vinfo]
           ELSE dm_disk[d]]
    /\ IF upto < Len(dm_last.pdevs)
       THEN /\ dm_last' = [dm_last EXCEPT !.status = "crashed"]
            /\ dm_pc' = "crashed"
            /\ UNCHANGED dm_handles
       ELSE /\ dm_last' = [dm_last EXCEPT !.status = "ok"]
            /\ dm_handles' = dm_handles \cup
                                 {[vdev_id |-> dm_last.vdev_id, obj |-> dm_last.obj]}
            /\ dm_pc' = "ready"
    /\ UNCHANGED <<m_dev_infos, m_first_blk_hdr, m_first_time_boot, m_all_pdevs,
                   m_pdevs_by_type, m_vdev_id_bm, m_chunk_id_bm, m_vdevs, m_chunks,
                   dm_issued, dm_snap, dm_creates, dm_boots, cpVars, chunkVars, auxVars>>

\* create_vdev from the vdev-info write to the return of the vdev
create_vdev_write_sb == create_vdev_write_upto(MaxDevs)

\* the devices of the home system, in the order they were formatted in
HomeDevs ==
    LET home == {d \in Devs : dm_disk[d].fb.valid /\ dm_disk[d].fb.system_uuid = HomeUuid}
    IN  [i \in 1 .. Cardinality(home) |-> CHOOSE d \in home : dm_disk[d].fb.pdev_id = i - 1]

\* a device formatted by another system, of n devices, at super-block version ver
ForeignDisk(ver, n) ==
    [hw |-> dm_disk[Foreign].hw,
     fb |-> [valid |-> TRUE,
             hdr |-> [version |-> ver, gen_number |-> 1, num_pdevs |-> n,
                      system_uuid |-> ForeignUuid],
             pdev_id |-> 0, system_uuid |-> ForeignUuid],
     vdevs |-> [v \in VdevIds |-> NoVinfo],
     chunks |-> {}]

\* the device lists a restart may present: the home devices, or, of several home devices,
\* the last one missing or the first or last one replaced by a foreign device
Presented ==
    {HomeDevs}
    \cup IF Len(HomeDevs) > 1
         THEN {SubSeq(HomeDevs, 1, Len(HomeDevs) - 1),
               SubSeq(HomeDevs, 1, Len(HomeDevs) - 1) \o <<Foreign>>,
               <<Foreign>> \o SubSeq(HomeDevs, 2, Len(HomeDevs))}
         ELSE {}

\* the process stops (in a crash when create_vdev is under way) and a new DeviceManager
\* is constructed over the devices presented
DmRestart(devs, ver) ==
    /\ dm_pc \in {"ready", "creating", "fatal"}
    /\ dm_boots < MaxBoots
    /\ devs \in Presented
    /\ Foreign \notin Range(devs) => ver = CURRENT_SUPERBLOCK_VERSION
    /\ dm_boots' = dm_boots + 1
    /\ dm_snap' = IF dm_pc = "ready" /\ devs = m_dev_infos
                  THEN [valid |-> TRUE, topo |-> Topology,
                        returned |-> {h.vdev_id : h \in dm_handles}]
                  ELSE NoSnap
    /\ dm_disk' = IF Foreign \in Range(devs)
                  THEN [dm_disk EXCEPT ![Foreign] = ForeignDisk(ver, Len(devs))]
                  ELSE dm_disk
    /\ Construct(dm_disk', devs)
    /\ UNCHANGED <<dm_issued, dm_creates, cpVars, chunkVars, auxVars>>

\* a device manager constructed over one or two blank devices, the first of the Data tier
InitDev ==
    /\ InitCP
    /\ ChunkIdle
    /\ OtherIdle
    /\ DmMembersBlank
    /\ \E n \in 1 .. MaxDevs :
           /\ m_dev_infos = [i \in 1 .. n |-> i]
           /\ dm_disk \in [AllDevs -> {BlankDisk(hw) : hw \in Hardware}]
           /\ dm_disk[1].hw.dev_type = "Data"
           /\ \A d \in AllDevs \ (1 .. n) :
                  dm_disk[d].hw = [dev_type |-> "Data", num_streams |-> 1, max_chunks |-> 1]

NextDev ==
    \/ format_devices
    \/ load_devices
    \/ \E vparam \in VdevParams : create_vdev_chunks(vparam)
    \/ create_vdev_write_sb
    \/ \E devs \in Presented,
          ver \in {CURRENT_SUPERBLOCK_VERSION, OLD_SUPERBLOCK_VERSION} : DmRestart(devs, ver)

SpecDev == InitDev /\ [][NextDev]_vars

\* ------------------------------------------------- properties of the device manager
\* the chunks a vdev object holds (VirtualDev::add_chunk)
ChunksOf(v) == {ch \in DiskChunks(m_dev_infos) : ch.uid \in m_vdevs[v].chunks}

RECURSIVE SumSizes(_)
SumSizes(chunks) ==
    IF chunks = {} THEN 0
    ELSE LET ch == CHOOSE c \in chunks : TRUE
         IN  ch.chunk_size + SumSizes(chunks \ {ch})

\* create_vdev has returned a vdev and nothing has happened since
Created == dm_pc = "ready" /\ dm_last.status = "ok"

\* the vdev_info create_vdev wrote for the vdev it returned last
PersistedVinfo == dm_disk[dm_last.pdevs[1]].vdevs[dm_last.vdev_id]

\* C12: after a successful create_vdev the sizes of the chunks created for the vdev add
\* up to the vdev_size recorded in its vdev_info, whatever the policy and the inputs
C12_ChunkSizesAddUpToVdevSize ==
    Created => SumSizes(ChunksOf(dm_last.vdev_id)) = PersistedVinfo.vdev_size

\* C13: the vdev_info persisted for a vdev created with mirrored placement satisfies
\* num_mirrors * num_primary_chunks = num_chunks, the adjusted chunk count
C13_MirrorsTimesPrimariesIsNumChunks ==
    (Created /\ dm_last.mirrored)
        => PersistedVinfo.num_mirrors * PersistedVinfo.num_primary_chunks
               = dm_last.num_chunks

\* C14: after the cap, the chunk count of a mirrored vdev is a multiple of the number of
\* devices and each device holds num_chunks / pdev_count chunks of it; the chunk count of
\* a striped vdev is a multiple of the total stream count of the chosen devices
C14_ChunkCountIsMultiple ==
    Created =>
        /\ dm_last.mirrored =>
               /\ dm_last.num_chunks % Len(dm_last.pdevs) = 0
               /\ \A d \in Range(dm_last.pdevs) :
                      Cardinality({ch \in ChunksOf(dm_last.vdev_id) : ch.dev = d})
                          * Len(dm_last.pdevs) = dm_last.num_chunks
        /\ dm_last.striped => dm_last.num_chunks % dm_last.total_streams = 0

\* a step in which create_vdev is called
CreateCalled == dm_pc = "ready" /\ dm_boots' = dm_boots /\ dm_last' # dm_last

\* no two vdev objects the upper layer holds (created or loaded) have the same vdev id
NoSharedVdevId == \A g, h \in dm_handles : g.vdev_id = h.vdev_id => g = h

\* C15: create_vdev gives a new vdev an id no live vdev uses, loaded vdevs included, and
\* when no vdev id or no chunk id is free it throws out_of_range and returns no vdev
C15_FreshVdevIdOrOutOfRange ==
    [][/\ NoSharedVdevId'
       /\ \A h \in dm_handles' \ dm_handles :
              dm_boots' = dm_boots => \A g \in dm_handles : g.vdev_id # h.vdev_id
       /\ (CreateCalled /\ (VdevIds \subseteq m_vdev_id_bm \/ ChunkIds \subseteq m_chunk_id_bm))
              => dm_last'.status = "out_of_range"
       /\ (CreateCalled /\ dm_last'.status = "out_of_range")
              => dm_pc' = "ready" /\ dm_handles' = dm_handles]_vars

\* after a restart that loaded two vdevs, create_vdev found no vdev id and threw
C15_Witness ==
    /\ dm_boots = 1
    /\ Cardinality(dm_handles) = 2
    /\ dm_last.status = "out_of_range"
    /\ dm_last.what = "vdev"

\* the process stopped while idle, every vdev it held had been returned by create_vdev
\* or loaded, and it was started again over the same devices
CleanRestart ==
    /\ dm_boots > 0
    /\ dm_snap.valid
    /\ dm_snap.returned = {vi.vdev_id : vi \in dm_snap.topo.vdevs}

LoadCalled == dm_pc = "constructed" /\ ~m_first_time_boot /\ dm_pc' # "constructed"

\* the devices presented do not match the header chosen at construction
Mismatch ==
    \/ Len(m_dev_infos) # m_first_blk_hdr.num_pdevs
    \/ m_first_blk_hdr.version # CURRENT_SUPERBLOCK_VERSION
    \/ \E i \in 1 .. Len(m_dev_infos) :
           dm_disk[m_dev_infos[i]].fb.system_uuid # m_first_blk_hdr.system_uuid

\* C17: load_devices ends in a fatal error, without the effects of load_vdevs, when the
\* number of devices presented is not the formatted num_pdevs, when the version of the
\* header is not the current one, or when a presented device carries another system uuid
C17_MismatchIsFatal ==
    [][(LoadCalled /\ Mismatch)
           => /\ dm_pc' = "fatal"
              /\ m_vdev_id_bm' = {} /\ m_chunk_id_bm' = {}
              /\ \A v \in VdevIds : ~m_vdevs'[v].live
              /\ \A c \in ChunkIds : ~m_chunks'[c].live
              /\ dm_handles' = {}]_vars

\* load_devices stopped on a device of another system, with the right number of devices,
\* a header of the current version and a vdev record waiting on the first device
C17_Witness ==
    /\ dm_pc = "fatal"
    /\ Len(m_dev_infos) = m_first_blk_hdr.num_pdevs
    /\ m_first_blk_hdr.version = CURRENT_SUPERBLOCK_VERSION
    /\ \E v \in VdevIds : dm_disk[m_dev_infos[1]].vdevs[v].slot_allocated

\* the chunks on the presented devices whose vdev id has no persisted vdev record
DanglingOnDisk ==
    {ch \in DiskChunks(m_dev_infos) :
         \A d \in Range(m_dev_infos) : ~dm_disk[d].vdevs[ch.vdev_id].slot_allocated}

\* C18: load skips a chunk whose vdev has no persisted record: the chunk enters neither
\* m_chunks nor a vdev, its ids stay free for the create_vdev that is tried again, and
\* the load succeeds
C18_DanglingChunksAreSkipped ==
    [][(LoadCalled /\ ~Mismatch)
           => /\ dm_pc' = "ready"
              /\ \A ch \in DanglingOnDisk :
                     /\ m_chunks'[ch.chunk_id] # ch
                     /\ \A v \in VdevIds : m_vdevs'[v].live => ch.uid \notin m_vdevs'[v].chunks
                     /\ ch.vdev_id \notin m_vdev_id_bm'
                     /\ ch.chunk_id \in m_chunk_id_bm' => m_chunks'[ch.chunk_id].live]_vars

\* a create_vdev was cut off before its vdev-info write, the restart skipped its chunks,
\* and a create_vdev after the restart returned a vdev with the same vdev id
C18_Witness ==
    /\ dm_boots = 1
    /\ Created
    /\ \E ch \in DiskChunks(m_dev_infos) :
           /\ ch.vdev_id = dm_last.vdev_id
           /\ ch.uid \notin m_vdevs[dm_last.vdev_id].chunks
           /\ m_chunks[ch.chunk_id] # ch

\* C19: a chunk id that create_vdev has handed out is never given to another chunk,
\* across create_vdev, crash and load_devices, chunks found dangling at load included
C19_ChunkIdNeverReused ==
    \A a, b \in dm_issued : a[1] = b[1] => a[2] = b[2]

-----------------------------------------------------------------------------
\* PhysicalDevChunk: the setters of one chunk record, called in any order.

\* PhysicalDevChunk::is_busy
is_busy(cinfo) == cinfo.vdev_id # INVALID_VDEV_ID \/ cinfo.is_sb_chunk

\* the frame of a setter called `name`
ChunkSetter(name) ==
    /\ chunk_op' = [name |-> name, busy_before |-> is_busy(chunk_info)]
    /\ UNCHANGED <<cpVars, dmVars, auxVars>>

\* PhysicalDevChunk::set_sb_chunk
set_sb_chunk ==
    /\ chunk_info' = [chunk_info EXCEPT !.is_sb_chunk = TRUE]
    /\ ChunkSetter("set_sb_chunk")

\* PhysicalDevChunk::set_vdev_id
set_vdev_id(vdev_id) ==
    /\ chunk_info' = [chunk_info EXCEPT !.vdev_id = vdev_id]
    /\ ChunkSetter("set_vdev_id")

\* a set_free that forgets the super-block flag
set_free_KeepsSb ==
    /\ chunk_info' = [chunk_info EXCEPT !.vdev_id = INVALID_VDEV_ID,
                                        !.primary_chunk_id = INVALID_CHUNK_ID]
    /\ ChunkSetter("set_free")

\* PhysicalDevChunk::set_free
set_free ==
    /\ chunk_info' = [chunk_info EXCEPT !.vdev_id = INVALID_VDEV_ID,
                                        !.primary_chunk_id = INVALID_CHUNK_ID,
                                        !.is_sb_chunk = FALSE]
    /\ ChunkSetter("set_free")

\* PhysicalDevChunk::set_primary_chunk_id
set_primary_chunk_id(primary_id) ==
    /\ chunk_info' = [chunk_info EXCEPT !.primary_chunk_id = primary_id]
    /\ ChunkSetter("set_primary_chunk_id")

\* PhysicalDevChunk::set_next_chunk_id
set_next_chunk_id(next_chunk_id) ==
    /\ chunk_info' = [chunk_info EXCEPT !.next_chunk_id = next_chunk_id]
    /\ ChunkSetter("set_next_chunk_id")

\* PhysicalDevChunk::set_prev_chunk_id
set_prev_chunk_id(prev_chunk_id) ==
    /\ chunk_info' = [chunk_info EXCEPT !.prev_chunk_id = prev_chunk_id]
    /\ ChunkSetter("set_prev_chunk_id")

\* PhysicalDevChunk::free_slot
free_slot ==
    /\ chunk_info' = [chunk_info EXCEPT !.slot_allocated = FALSE]
    /\ ChunkSetter("free_slot")

\* one chunk of a formatted device: free, its slot allocated, linked to nothing
InitChunk ==
    /\ InitCP
    /\ DmIdle
    /\ ChunkIdle
    /\ OtherIdle

NextChunk ==
    \/ set_sb_chunk
    \/ \E v \in VdevIds \cup {INVALID_VDEV_ID} : set_vdev_id(v)
    \/ set_free
    \/ \E c \in ChunkIds \cup {INVALID_CHUNK_ID} : set_primary_chunk_id(c)
    \/ \E c \in ChunkIds \cup {INVALID_CHUNK_ID} : set_next_chunk_id(c)
    \/ \E c \in ChunkIds \cup {INVALID_CHUNK_ID} : set_prev_chunk_id(c)
    \/ free_slot

SpecChunk == InitChunk /\ [][NextChunk]_vars

\* what set_free leaves behind: no vdev id, no primary chunk, not busy
FreedIsFree ==
    chunk_op.name = "set_free"
        => /\ chunk_info.vdev_id = INVALID_VDEV_ID
           /\ chunk_info.primary_chunk_id = INVALID_CHUNK_ID
           /\ ~is_busy(chunk_info)

\* C20 as stated: a chunk is busy exactly when it carries a valid vdev id, and set_free
\* leaves it with no vdev id, no primary chunk and not busy
C20_BusyIffValidVdevId ==
    /\ is_busy(chunk_info) <=> chunk_info.vdev_id \in VdevIds
    /\ FreedIsFree

\* C20 as the code has it: a chunk is busy exactly when it carries a valid vdev id or is
\* a super-block chunk, a chunk that is not busy is owned by no vdev, and set_free leaves
\* it with no vdev id, no primary chunk, no super-block flag and not busy
C20_BusyIffOwnedOrSuperBlock ==
    /\ is_busy(chunk_info) <=> (chunk_info.vdev_id \in VdevIds \/ chunk_info.is_sb_chunk)
    /\ FreedIsFree
    /\ chunk_op.name = "set_free" => ~chunk_info.is_sb_chunk

\* set_free has just been applied to a chunk that was busy
C20_Witness ==
    /\ chunk_op.name = "set_free"
    /\ chunk_op.busy_before
    /\ ~is_busy(chunk_info)

\* ------------------------------------------------------------- CPGuard objects
\* cp_mgr.cpp lines 303-350.  A guard is an object with m_cp and m_pushed; it is
\* constructed, copied, assigned and destroyed by the thread that uses it, and a
\* copy may be taken of a guard that another thread made (the guard is handed over).
\* The CPs of this part are not flushed to completion, so every m_cp stays allocated.

\* what a guard operation leaves alone
guardFrame == <<m_cur_cp, m_in_flush_phase, m_cp_shutdown_initiated, trigger_cp_mtx,
                sbVars, rcu_wait, flush_pending, ioVars, l_force, l_ctx, l_ret, fut,
                wdVars, histVars, inflight_cp, ub, farVars, flushVars, swVars>>

FreeGuard(g) == g \in Guards /\ ~guards[g].live
OwnGuard(t, g) == g \in Guards /\ guards[g].live /\ guards[g].th = t

\* CPGuard::CPGuard(CPManager*), lines 304-315: cp_io_enter with an empty
\* t_cp_stack, otherwise the stack top and cp_ref; push; m_pushed = true
CPGuard_ctor(t, g) ==
    /\ t \in Users /\ pc[t] = "idle" /\ FreeGuard(g)
    /\ Len(t_cp_stack[t]) < MaxStack
    /\ m_cur_cp # NULL
    /\ LET c == IF t_cp_stack[t] = <<>> THEN m_cur_cp ELSE Top(t)
       IN /\ cps' = cp_ref(c)
          /\ t_cp_stack' = Push(t, c)
          /\ guards' = [guards EXCEPT ![g] = [live |-> TRUE, m_cp |-> c,
                                              m_pushed |-> TRUE, th |-> t]]
    /\ UNCHANGED <<pc, l_cp, guardFrame>>

\* CPGuard::CPGuard(const CPGuard& other), lines 325-329
CPGuard_copy(t, g, h) ==
    /\ t \in Users /\ pc[t] = "idle" /\ FreeGuard(g)
    /\ h \in Guards /\ guards[h].live
    /\ cps[guards[h].m_cp].m_enter_cnt < MaxEnter
    /\ cps' = cp_ref(guards[h].m_cp)
    /\ guards' = [guards EXCEPT ![g] = [live |-> TRUE, m_cp |-> guards[h].m_cp,
                                        m_pushed |-> FALSE, th |-> t]]
    /\ UNCHANGED <<pc, l_cp, t_cp_stack, guardFrame>>

\* CPGuard::operator=(const CPGuard& other), lines 331-336: m_cp and m_pushed are
\* overwritten and cp_ref taken; the CP held before is not exited and the stack is
\* not popped.  The value returned is a copy (cp_ref) destroyed at the end of the
\* expression (cp_io_exit, never the last one since *this holds the CP): no net effect.
CPGuard_assign(t, g, h) ==
    /\ OwnGuard(t, g) /\ pc[t] = "idle"
    /\ h \in Guards /\ guards[h].live /\ h # g
    /\ cps[guards[h].m_cp].m_enter_cnt < MaxEnter
    /\ cps' = cp_ref(guards[h].m_cp)
    /\ guards' = [guards EXCEPT ![g].m_cp = guards[h].m_cp, ![g].m_pushed = FALSE]
    /\ UNCHANGED <<pc, l_cp, t_cp_stack, guardFrame>>

\* CPGuard::get, lines 342-350: a guard that is not on the stack is pushed
CPGuard_get(t, g) ==
    /\ OwnGuard(t, g) /\ pc[t] = "idle"
    /\ ~guards[g].m_pushed
    /\ Len(t_cp_stack[t]) < MaxStack
    /\ t_cp_stack' = Push(t, guards[g].m_cp)
    /\ guards' = [guards EXCEPT ![g].m_pushed = TRUE]
    /\ UNCHANGED <<cps, pc, l_cp, guardFrame>>

\* CPGuard::~CPGuard, lines 317-323: the stack top is popped when m_pushed, whatever
\* it is; then cp_io_exit up to decrement_testz (ExitCheck reads the status)
CPGuard_dtor(t, g) ==
    /\ OwnGuard(t, g) /\ pc[t] = "idle"
    /\ t_cp_stack' = IF guards[g].m_pushed /\ t_cp_stack[t] # <<>>
                     THEN Pop(t) ELSE t_cp_stack
    /\ cps' = cp_dec(guards[g].m_cp)
    /\ guards' = [guards EXCEPT ![g] = NoGuard]
    /\ IF cps[guards[g].m_cp].m_enter_cnt = 1
       THEN /\ pc' = [pc EXCEPT ![t] = "exit_chk"]
            /\ l_cp' = [l_cp EXCEPT ![t] = guards[g].m_cp]
       ELSE UNCHANGED <<pc, l_cp>>
    /\ UNCHANGED guardFrame

\* guard objects on the user threads, and unforced triggers that switch the CP
NextGuard ==
    \/ \E t \in Users, g \in Guards : CPGuard_ctor(t, g)
    \/ \E t \in Users, g \in Guards, h \in Guards : CPGuard_copy(t, g, h)
    \/ \E t \in Users, g \in Guards, h \in Guards : CPGuard_assign(t, g, h)
    \/ \E t \in Users, g \in Guards : CPGuard_get(t, g)
    \/ \E t \in Users, g \in Guards : CPGuard_dtor(t, g)
    \/ \E t \in Users : ExitCheck(t)
    \/ \E t \in Users : TriggerCall(t, FALSE)
    \/ \E t \in Threads : CasWon(t)
    \/ \E t \in Threads : CasBusyNoForce(t)
    \/ \E t \in Threads : TLock(t)
    \/ \E t \in Threads : TSwap(t)
    \/ \E t \in Threads : TSync(t)
    \/ \E t \in Threads : TExit(t)
    \/ \E t \in Threads : TExitCheck(t)

SpecGuard == Init /\ [][NextGuard]_vars

\* the guard that trigger_cp_flush holds between lines 164 and 202
TriggerHolds(t, c) ==
    /\ pc[t] \in {"t_lock", "t_swap", "t_sync", "t_exit"}
    /\ t_cp_stack[t] # <<>> /\ Top(t) = c

LiveGuardsOn(c) == {g \in Guards : guards[g].live /\ guards[g].m_cp = c}

\* every guard object is destroyed and no thread is inside an operation
NoGuardLeft ==
    /\ \A g \in Guards : ~guards[g].live
    /\ \A t \in Threads : pc[t] = "idle"

\* C25: the entry count of every CP is the number of live guards that refer to it,
\* the guard of a trigger in progress included; with every guard released the count
\* is zero and no CP is left in flush_prepare
C25_EntryCountIsLiveGuards ==
    \A c \in CpIds :
        Live(c) =>
            /\ cps[c].m_enter_cnt =
                   Cardinality(LiveGuardsOn(c))
                   + Cardinality({t \in Threads : TriggerHolds(t, c)})
            /\ NoGuardLeft => /\ cps[c].m_enter_cnt = 0
                              /\ cps[c].m_cp_status # "cp_flush_prepare"

\* the thread has a guard of its own on its t_cp_stack
HoldsPushed(t) == \E h \in Guards : OwnGuard(t, h) /\ guards[h].m_pushed

\* the CP of the outermost guard: the bottom of the thread's stack
Outermost(t) == t_cp_stack[t][Len(t_cp_stack[t])]

\* C26: a guard constructed on a thread that holds a guard refers to the CP of the
\* thread's outermost guard, whatever the current CP is; a guard constructed on a
\* thread that holds no guard refers to the CP that is current at that time
C26_NestedGuardKeepsOutermostCp ==
    [][\A t \in Users, g \in Guards :
          CPGuard_ctor(t, g) =>
              IF HoldsPushed(t) /\ t_cp_stack[t] # <<>>
              THEN guards'[g].m_cp = Outermost(t)
              ELSE (\A h \in Guards : ~OwnGuard(t, h)) => guards'[g].m_cp = m_cur_cp]_vars

\* ------------------------------------------------------------- cp_io_exit, step by step
\* cp_io_exit (lines 129-134) reads m_cp_status after decrement_testz returned true,
\* and cp_start_flush (lines 204-217) stores cp_flushing at line 207 before it calls
\* cp_flush on every consumer: a load and a later store with no lock around them.

ExitPcs == {"exit_chk", "t_exit_chk", "cb_exit_chk"}
StartPcs == {"exit_start", "t_exit_start", "cb_exit_start"}

StartPc(p) == CASE p = "exit_chk" -> "exit_start"
                [] p = "t_exit_chk" -> "t_exit_start"
                [] p = "cb_exit_chk" -> "cb_exit_start"

\* the end of cp_io_exit: back to the caller of the guard or of trigger_cp_flush
LeaveExit(t) ==
    IF pc[t] \in {"t_exit_chk", "t_exit_start"}
    THEN ReturnFrom(t, l_ret[t])
    ELSE /\ pc' = [pc EXCEPT ![t] = "idle"]
         /\ l_cp' = [l_cp EXCEPT ![t] = 0]
         /\ UNCHANGED <<l_force, l_ctx, l_ret, fut>>

\* line 131, second operand: cp->m_cp_status == cp_flush_prepare
cp_io_exit_status(t) ==
    /\ pc[t] \in ExitPcs
    /\ IF ~Live(l_cp[t])
       THEN Undefined
       ELSE /\ IF cps[l_cp[t]].m_cp_status = "cp_flush_prepare"
               THEN /\ pc' = [pc EXCEPT ![t] = StartPc(pc[t])]
                    /\ UNCHANGED <<localVars, fut>>
               ELSE LeaveExit(t)
            /\ UNCHANGED <<mgrVars, sbVars, rcu_wait, flush_pending, ioVars, t_cp_stack,
                           wdVars, histVars, inflight_cp, ub, restVars>>

\* cp_start_flush, lines 204-217: cp_flushing, then cp_flush on every consumer.  A
\* second run on the same CP calls cp_flush on every consumer again; the futures of
\* both runs are followed as one set.
cp_start_flush(t) ==
    /\ pc[t] \in StartPcs
    /\ IF ~Live(l_cp[t])
       THEN Undefined
       ELSE /\ cps' = [cps EXCEPT ![l_cp[t]].m_cp_status = "cp_flushing"]
            /\ flush_pending' = [flush_pending EXCEPT ![l_cp[t]] = Consumers]
            /\ cp_flush_calls' = [cp_flush_calls EXCEPT ![l_cp[t]] = @ + 1]
            /\ LeaveExit(t)
            /\ UNCHANGED <<m_cur_cp, m_in_flush_phase, m_cp_shutdown_initiated,
                           trigger_cp_mtx, sbVars, rcu_wait, ioVars, t_cp_stack, wdVars,
                           histVars, inflight_cp, ub, farVars, guardVars, swVars>>

\* producers, unforced triggers and the flush completion, with cp_io_exit in steps
NextFlush ==
    \/ \E t \in Users : GuardEnter(t)
    \/ \E t \in Users : GuardRef(t)
    \/ \E t \in Users : GuardExit(t)
    \/ \E t \in Threads : cp_io_exit_status(t)
    \/ \E t \in Threads : cp_start_flush(t)
    \/ \E t \in Users : TriggerCall(t, FALSE)
    \/ \E t \in Threads : CasWon(t)
    \/ \E t \in Threads : CasBusyNoForce(t)
    \/ \E t \in Threads : TLock(t)
    \/ \E t \in Threads : TSwap(t)
    \/ \E t \in Threads : TSync(t)
    \/ \E t \in Threads : TExit(t)
    \/ \E c \in CpIds, k \in Consumers : ConsumerFlushDone(c, k)
    \/ CbPersist
    \/ CbCleanup
    \/ CbDelete
    \/ CbSetValue
    \/ CbClear
    \/ CbGuard
    \/ CbRef
    \/ CbExit

SpecFlush == Init /\ [][NextFlush]_vars

\* C27: cp_flush runs once on every consumer of a CP that is being or has been
\* flushed, and cp_cleanup runs on a CP only when every cp_flush future of that CP
\* has completed
C27_FlushAndCleanupOncePerConsumer ==
    /\ \A c \in CpIds :
           /\ cp_flush_calls[c] <= 1
           /\ Live(c) /\ cps[c].m_cp_status \in {"cp_flushing", "cp_flush_done", "cp_cleaning"}
                  => cp_flush_calls[c] = 1
    /\ pc[IO] = "cb_delete" => flush_pending[l_cp[IO]] = {}

\* ------------------------------------------------------------- switchover contexts
\* register_consumer (lines 94-100) and the part of trigger_cp_flush under
\* trigger_cp_mtx (lines 171-192), with the loop of lines 178-181 one consumer at a
\* time: register_consumer takes no lock, so its two stores interleave with the loop.

switchFrame == <<farVars, guardVars, flushVars>>

\* line 96: m_cp_cb_table[idx] = std::move(callbacks)
RegStore(k) ==
    /\ reg_pc[k] = "idle"
    /\ m_cp_cb_table' = [m_cp_cb_table EXCEPT ![k] = TRUE]
    /\ reg_pc' = [reg_pc EXCEPT ![k] = "stored"]
    /\ UNCHANGED <<cpVars, switchFrame, m_contexts, on_switchover_calls, sw_idx>>

\* lines 97-99: m_cur_cp->m_contexts[idx] = on_switchover_cp(nullptr, m_cur_cp)
RegContext(k) ==
    /\ reg_pc[k] = "stored"
    /\ m_cur_cp # NULL
    /\ m_contexts' = [m_contexts EXCEPT ![m_cur_cp][k] = <<NULL, m_cur_cp>>]
    /\ on_switchover_calls' = [on_switchover_calls EXCEPT ![m_cur_cp][k] = @ + 1]
    /\ reg_pc' = [reg_pc EXCEPT ![k] = "done"]
    /\ UNCHANGED <<cpVars, switchFrame, m_cp_cb_table, sw_idx>>

\* lines 171-177: new CP(this), trigger_cp_mtx taken, idx = 0
SwLock(t) ==
    /\ pc[t] = "t_lock"
    /\ trigger_cp_mtx = -1
    /\ Top(t) < MaxCP
    /\ trigger_cp_mtx' = t
    /\ l_cp' = [l_cp EXCEPT ![t] = Top(t) + 1]
    /\ cps' = [cps EXCEPT ![Top(t) + 1] = [NoCP EXCEPT !.alloc = "live"]]
    /\ pc' = [pc EXCEPT ![t] = "t_loop"]
    /\ sw_idx' = 1
    /\ UNCHANGED <<m_cur_cp, m_in_flush_phase, m_cp_shutdown_initiated, sbVars, rcu_wait,
                   flush_pending, ioVars, t_cp_stack, l_force, l_ctx, l_ret, fut, wdVars,
                   histVars, inflight_cp, ub, switchFrame, m_cp_cb_table, m_contexts,
                   on_switchover_calls, reg_pc>>

\* lines 178-181, one turn of the loop: if (consumer) new_cp->m_contexts[idx] =
\* consumer->on_switchover_cp(cur_cp.get(), new_cp); ++idx
SwLoop(t) ==
    /\ pc[t] = "t_loop"
    /\ sw_idx \in Consumers
    /\ IF m_cp_cb_table[sw_idx]
       THEN /\ m_contexts' = [m_contexts EXCEPT ![l_cp[t]][sw_idx] = <<Top(t), l_cp[t]>>]
            /\ on_switchover_calls' =
                   [on_switchover_calls EXCEPT ![l_cp[t]][sw_idx] = @ + 1]
       ELSE UNCHANGED <<m_contexts, on_switchover_calls>>
    /\ sw_idx' = sw_idx + 1
    /\ UNCHANGED <<cpVars, switchFrame, m_cp_cb_table, reg_pc>>

\* lines 184-192: the choice of the future, cur_cp->m_cp_status = cp_flush_prepare
SwPrepare(t) ==
    /\ pc[t] = "t_loop"
    /\ sw_idx = NumConsumers + 1
    /\ LET cur == Top(t)
           k == cps[cur].m_comp_promise
       IN IF cps[cur].m_cp_waiting_to_trigger
          THEN /\ l_ret' = [l_ret EXCEPT ![t] = [NoFut EXCEPT !.kind = "true", !.cp = cur]]
               /\ cps' = [cps EXCEPT ![cur].m_cp_status = "cp_flush_prepare"]
          ELSE /\ l_ret' = [l_ret EXCEPT ![t] =
                               [NoFut EXCEPT !.kind = "promise", !.cp = cur,
                                             !.p = <<cur, k + 1>>]]
               /\ cps' = [cps EXCEPT ![cur].m_cp_status = "cp_flush_prepare",
                                     ![cur].m_comp_promise = k + 1]
    /\ pc' = [pc EXCEPT ![t] = "t_swap"]
    /\ sw_idx' = 0
    /\ UNCHANGED <<m_cur_cp, m_in_flush_phase, m_cp_shutdown_initiated, trigger_cp_mtx,
                   sbVars, rcu_wait, flush_pending, ioVars, t_cp_stack, l_cp, l_force,
                   l_ctx, fut, wdVars, histVars, inflight_cp, ub, switchFrame,
                   m_cp_cb_table, m_contexts, on_switchover_calls, reg_pc>>

\* the first CP is current; some consumers are registered already, the others
\* register while producers and the CP timer are running
InitSwitch ==
    /\ InitCP
    /\ DmIdle
    /\ ChunkIdle
    /\ GuardIdle
    /\ FlushIdle
    /\ LogIdle
    /\ \E regd \in SUBSET Consumers : SwitchIdle(regd)

NextSwitch ==
    \/ \E k \in Consumers : RegStore(k)
    \/ \E k \in Consumers : RegContext(k)
    \/ \E t \in Users : GuardEnter(t)
    \/ \E t \in Users : GuardRef(t)
    \/ \E t \in Users : GuardExit(t)
    \/ \E t \in Users : ExitCheck(t)
    \/ \E t \in Users : TriggerCall(t, FALSE)
    \/ \E t \in Threads : CasWon(t)
    \/ \E t \in Threads : CasBusyNoForce(t)
    \/ \E t \in Threads : SwLock(t)
    \/ \E t \in Threads : SwLoop(t)
    \/ \E t \in Threads : SwPrepare(t)
    \/ \E t \in Threads : TSwap(t)
    \/ \E t \in Threads : TSync(t)
    \/ \E t \in Threads : TExit(t)
    \/ \E t \in Threads : TExitCheck(t)

SpecSwitch == InitSwitch /\ [][NextSwitch]_vars

\* the consumers whose register_consumer call has returned
Registered == {k \in Consumers : reg_pc[k] = "done"}

\* C28: when the new CP becomes current, on_switchover_cp(old, new) has been called
\* once for every registered consumer and its context is stored in the new CP; the
\* CP that cp_io_enter hands to a producer has a context for every registered consumer
C28_ContextsSetBeforeCpIsCurrent ==
    [][/\ \A t \in Threads :
              TSwap(t) => \A k \in Registered :
                              /\ m_contexts[l_cp[t]][k] = <<m_cur_cp, l_cp[t]>>
                              /\ on_switchover_calls[l_cp[t]][k] = 1
       /\ \A t \in Users :
              GuardRef(t) => \A k \in Registered : m_contexts[l_cp[t]][k] # NoCtx]_vars

\* cp_status_t in the order of the CP's life; "none" is a CP between new CP(this)
\* and the store of cp_io_ready
StatusOrder == <<"none", "cp_io_ready", "cp_trigger", "cp_flush_prepare", "cp_flushing",
                 "cp_flush_done", "cp_cleaning">>

StatusRank(st) == CHOOSE i \in 1 .. Len(StatusOrder) : StatusOrder[i] = st

\* C29: whenever the status of a CP object changes, it changes to the next status
\* of the order: no status is skipped and none is taken again (a restart makes new
\* CP objects)
C29_StatusMovesOneStepForward ==
    [][\A c \in CpIds :
          (cps[c].alloc = "live" /\ cps'[c].alloc = "live" /\ restarts' = restarts
             /\ cps'[c].m_cp_status # cps[c].m_cp_status)
          => StatusRank(cps'[c].m_cp_status) = StatusRank(cps[c].m_cp_status) + 1]_vars

\* ---------------------------------------------------------------------------------------
\* create_vdev cut short by a crash at each point of its two loops
\* ---------------------------------------------------------------------------------------

\* the process dies and a new DeviceManager is constructed over the devices of the home
\* system; dm_snap keeps what the dead process held in memory
DmCrash ==
    /\ dm_pc \in {"ready", "creating", "crashed"}
    /\ dm_boots < MaxBoots
    /\ dm_boots' = dm_boots + 1
    /\ dm_snap' = [valid |-> TRUE, topo |-> Topology,
                   returned |-> {h.vdev_id : h \in dm_handles}]
    /\ Construct(dm_disk, HomeDevs)
    /\ UNCHANGED <<dm_disk, dm_issued, dm_creates, cpVars, chunkVars, auxVars>>

NextCrash ==
    \/ format_devices
    \/ load_devices
    \/ \E vparam \in VdevParams : create_vdev_chunks(vparam)
    \/ \E vparam \in VdevParams, upto \in 0 .. (MaxDevs - 1) : create_vdev_upto(vparam, upto)
    \/ create_vdev_write_sb
    \/ \E upto \in 1 .. (MaxDevs - 1) : create_vdev_write_upto(upto)
    \/ DmCrash

\* a device manager constructed over one or two blank devices of one stream each that hold
\* MaxChunksInPdev chunks, the first of the Data tier
InitCrash ==
    /\ InitDev
    /\ \A d \in Range(m_dev_infos) :
           dm_disk[d].hw.num_streams = 1 /\ dm_disk[d].hw.max_chunks = MaxChunksInPdev

SpecCrash == InitCrash /\ [][NextCrash]_vars

\* the step is load_devices passing its checks after a crash
LoadAfterCrash == dm_pc = "constructed" /\ dm_pc' = "ready" /\ dm_snap.valid

\* C30: at every crash point of create_vdev, a vdev whose record load_vdevs finds gets at
\* least the chunks the dead process had created for it: the chunk records are on the
\* devices before the vdev record is
C30_LoadedVdevHasItsChunks ==
    [][LoadAfterCrash
         => \A v \in VdevIds :
                m_vdevs'[v].live => dm_snap.topo.owned[v] \subseteq m_vdevs'[v].chunks]_vars

\* a load has found a vdev, with its chunks on two devices, whose create_vdev died between
\* the vdev-info write on the first device and the one on the second
C30_Witness ==
    /\ dm_pc = "ready"
    /\ dm_boots > 0
    /\ dm_snap.valid
    /\ \E v \in VdevIds :
           /\ v \notin dm_snap.returned
           /\ m_vdevs[v].live
           /\ Cardinality(dm_snap.topo.owned[v]) >= 2
           /\ dm_snap.topo.owned[v] \subseteq m_vdevs[v].chunks
           /\ \E d \in Range(m_dev_infos) : ~dm_disk[d].vdevs[v].slot_allocated

\* ---------------------------------------------------------------------------------------
\* HomeLogStoreMgr::device_truncate and the truncation of the families
\* ---------------------------------------------------------------------------------------

logFrame == <<cpVars, dmVars, chunkVars, guardVars, flushVars, swVars, journalVars,
              commitVars>>

\* the smallest member of a non-empty set of numbers
MinOf(S) == CHOOSE m \in S : \A o \in S : m <= o

LiveStores(f) == {s \in Stores : fam_stores[f][s].live}

\* a truncation point taken from the first store slot alone
truncation_point_FirstStore(f) == fam_stores[f][1].trunc_pt

\* the truncation point of a family: the minimum over its live stores
truncation_point(f) == MinOf({fam_stores[f][s].trunc_pt : s \in LiveStores(f)})

\* read(lsn) on the log device of a family succeeds
CanRead(f, lsn) == fam_start[f] <= lsn /\ lsn <= MaxLsn

\* a count that stands for one family whatever their number
InitialOutstanding_One(wait_till_done) == IF wait_till_done THEN 1 ELSE 0

\* device_truncate, the value of trunc_outstanding before the loop: the number of families
\* when wait_till_done is set
InitialOutstanding(wait_till_done) ==
    IF wait_till_done THEN Len(m_logstore_families) ELSE 0

\* device_truncate up to its loop: the truncate_req is made
device_truncate_call(has_cb, wait_till_done, dry_run) ==
    /\ tr_pc = "idle"
    /\ tr_calls < MaxReqs
    /\ tr_calls' = tr_calls + 1
    /\ treqs' = [treqs EXCEPT ![tr_calls + 1] =
           [made |-> TRUE, wait_till_done |-> wait_till_done, dry_run |-> dry_run,
            cb |-> has_cb,
            trunc_outstanding |-> InitialOutstanding(wait_till_done),
            returned |-> FALSE, truncated |-> {}, cb_fired |-> {}, counted |-> {}]]
    /\ tr_pc' = "loop"
    /\ tr_idx' = 1
    /\ UNCHANGED <<trunc_q, trunc_stage, fam_stores, fam_start, logFrame>>

\* device_truncate, one round of its loop: the request is sent to the truncate thread for
\* one family
device_truncate_loop ==
    /\ tr_pc = "loop"
    /\ trunc_q' = Append(trunc_q, <<tr_calls, m_logstore_families[tr_idx]>>)
    /\ IF tr_idx < Len(m_logstore_families)
       THEN tr_idx' = tr_idx + 1 /\ UNCHANGED tr_pc
       ELSE tr_idx' = 0 /\ tr_pc' = "wait"
    /\ UNCHANGED <<treqs, tr_calls, trunc_stage, fam_stores, fam_start, logFrame>>

\* device_truncate from the end of its loop: the wait for trunc_outstanding == 0 when
\* wait_till_done is set, and the return
device_truncate_return ==
    /\ tr_pc = "wait"
    /\ treqs[tr_calls].wait_till_done => treqs[tr_calls].trunc_outstanding = 0
    /\ treqs' = [treqs EXCEPT ![tr_calls].returned = TRUE]
    /\ tr_pc' = "idle"
    /\ UNCHANGED <<tr_calls, tr_idx, trunc_q, trunc_stage, fam_stores, fam_start, logFrame>>

\* the truncate thread takes the head of its queue: the family's device is truncated at
\* the truncation point unless dry_run is set
do_device_truncate ==
    /\ trunc_q # <<>>
    /\ trunc_stage = "idle"
    /\ LET r == Head(trunc_q)[1]
           f == Head(trunc_q)[2]
       IN  /\ fam_start' =
                  IF treqs[r].dry_run \/ LiveStores(f) = {}
                       \/ truncation_point(f) <= fam_start[f]
                  THEN fam_start
                  ELSE [fam_start EXCEPT ![f] = truncation_point(f)]
           /\ treqs' = [treqs EXCEPT ![r].truncated = @ \cup {f}]
    /\ trunc_stage' = "truncated"
    /\ UNCHANGED <<tr_calls, tr_pc, tr_idx, trunc_q, fam_stores, logFrame>>

\* the truncate thread, after the truncation of a family: the callback of the request
truncate_cb ==
    /\ trunc_stage = "truncated"
    /\ LET r == Head(trunc_q)[1]
           f == Head(trunc_q)[2]
       IN  treqs' = [treqs EXCEPT ![r].cb_fired = IF treqs[r].cb THEN @ \cup {f} ELSE @]
    /\ trunc_stage' = "called"
    /\ UNCHANGED <<tr_calls, tr_pc, tr_idx, trunc_q, fam_stores, fam_start, logFrame>>

\* the truncate thread, at the end of its work for a family: trunc_outstanding is counted
\* down under the mutex of the request and the waiter is notified
truncate_done ==
    /\ trunc_stage = "called"
    /\ LET r == Head(trunc_q)[1]
           f == Head(trunc_q)[2]
       IN  treqs' = [treqs EXCEPT
                         ![r].trunc_outstanding =
                             IF treqs[r].wait_till_done THEN @ - 1 ELSE @,
                         ![r].counted = @ \cup {f}]
    /\ trunc_q' = Tail(trunc_q)
    /\ trunc_stage' = "idle"
    /\ UNCHANGED <<tr_calls, tr_pc, tr_idx, fam_stores, fam_start, logFrame>>

\* HomeLogStore::truncate: the truncation point of a store moves up
store_truncate(f, s, lsn) ==
    /\ fam_stores[f][s].live
    /\ lsn > fam_stores[f][s].trunc_pt
    /\ lsn <= MaxLsn
    /\ fam_stores' = [fam_stores EXCEPT ![f][s].trunc_pt = lsn]
    /\ UNCHANGED <<treqs, tr_calls, tr_pc, tr_idx, trunc_q, trunc_stage, fam_start,
                   logFrame>>

\* HomeLogStoreMgr::remove_log_store
remove_log_store(f, s) ==
    /\ fam_stores[f][s].live
    /\ fam_stores' = [fam_stores EXCEPT ![f][s] = NoStore]
    /\ UNCHANGED <<treqs, tr_calls, tr_pc, tr_idx, trunc_q, trunc_stage, fam_start,
                   logFrame>>

\* a started log store service: each family with at least one store, the truncation point
\* of each store an LSN its log device holds
InitTrunc ==
    /\ InitCP
    /\ DmIdle
    /\ ChunkIdle
    /\ GuardIdle
    /\ FlushIdle
    /\ SwitchIdle(Consumers)
    /\ JournalIdle
    /\ CommitIdle
    /\ treqs = [r \in Reqs |-> NoReq]
    /\ tr_calls = 0
    /\ tr_pc = "idle"
    /\ tr_idx = 0
    /\ trunc_q = <<>>
    /\ trunc_stage = "idle"
    /\ fam_start = [f \in Families |-> 0]
    /\ fam_stores \in [Families -> [Stores ->
           {NoStore} \cup [live : {TRUE}, trunc_pt : 0 .. MaxLsn]]]
    /\ \A f \in Families : fam_stores[f][1].live

NextTrunc ==
    \/ \E has_cb, wait_till_done, dry_run \in BOOLEAN :
           device_truncate_call(has_cb, wait_till_done, dry_run)
    \/ device_truncate_loop
    \/ device_truncate_return
    \/ do_device_truncate
    \/ truncate_cb
    \/ truncate_done
    \/ \E f \in Families, s \in Stores, lsn \in 1 .. MaxLsn : store_truncate(f, s, lsn)
    \/ \E f \in Families, s \in Stores : remove_log_store(f, s)

SpecTrunc == InitTrunc /\ [][NextTrunc]_vars

\* the step is the truncation of family f by the truncate thread
TruncationOf(f) ==
    /\ trunc_stage = "idle"
    /\ trunc_stage' = "truncated"
    /\ Head(trunc_q)[2] = f

InitWait ==
    /\ InitTrunc
    /\ \A f \in Families : LiveStores(f) = {1} /\ fam_stores[f][1].trunc_pt = MaxLsn

NextWait ==
    \/ \E has_cb, wait_till_done, dry_run \in BOOLEAN :
           device_truncate_call(has_cb, wait_till_done, dry_run)
    \/ device_truncate_loop
    \/ device_truncate_return
    \/ do_device_truncate
    \/ truncate_cb
    \/ truncate_done

\* the caller of device_truncate goes on when it can, and the truncate thread, which runs
\* an io loop over the messages sent to it, takes up each of them
SpecWait ==
    /\ InitWait
    /\ [][NextWait]_vars
    /\ WF_vars(device_truncate_loop)
    /\ WF_vars(device_truncate_return)
    /\ WF_vars(do_device_truncate)
    /\ WF_vars(truncate_cb)
    /\ WF_vars(truncate_done)

\* a device_truncate call with wait_till_done has returned only when every family was
\* truncated, the callback was made for each and the count is zero
ReturnedAfterAllFamilies ==
    \A r \in Reqs :
        (treqs[r].made /\ treqs[r].returned /\ treqs[r].wait_till_done)
        => /\ treqs[r].truncated = Families
           /\ treqs[r].cb => treqs[r].cb_fired = Families
           /\ treqs[r].counted = Families
           /\ treqs[r].trunc_outstanding = 0

\* a device_truncate call without wait_till_done can return as soon as its loop has ended
ReturnsWithoutWaiting ==
    (tr_pc = "wait" /\ ~treqs[tr_calls].wait_till_done) => ENABLED device_truncate_return

\* C23: device_truncate with wait_till_done returns only after both families have
\* completed their truncation and their callback has fired, when the outstanding count
\* set to the number of families has reached zero; without wait_till_done it returns
\* without waiting; every call returns in the end
C23_WaitTillDoneReturnsAfterAllFamilies ==
    /\ []ReturnedAfterAllFamilies
    /\ []ReturnsWithoutWaiting
    /\ \A r \in Reqs : (treqs[r].made ~> (treqs[r].made /\ treqs[r].returned))

\* a call with wait_till_done and a callback has returned after both families, and a call
\* without wait_till_done has returned with no family truncated yet
C23_Witness ==
    /\ treqs[1].made /\ treqs[1].returned /\ ~treqs[1].wait_till_done
    /\ treqs[2].made /\ treqs[2].returned /\ treqs[2].wait_till_done /\ treqs[2].cb
    /\ treqs[2].cb_fired = Families

\* ---------------------------------------------------------------------------------------
\* SoloReplDev: journal entries written through the data journal and replayed from it
\* ---------------------------------------------------------------------------------------

journalFrame == <<cpVars, dmVars, chunkVars, guardVars, flushVars, swVars, truncVars,
                  commitVars>>

\* repl_journal_entry::JOURNAL_ENTRY_MAJOR, the value major_version is constructed with
JOURNAL_ENTRY_MAJOR == 1
HS_LARGE_DATA == "HS_LARGE_DATA"

\* the user headers and keys the model draws from, as byte strings
Headers == {<<>>, <<1>>}
Keys == {<<>>, <<2>>}

\* a default-constructed MultiBlkId
NoBlkId == [blk_num |-> 0, nblks |-> 0]
BlkIds == [blk_num : 1 .. MaxBlkNum, nblks : {1}]

\* MultiBlkId::serialize and deserialize: the fields one after the other
serialize(blkid) == <<blkid.blk_num, blkid.nblks>>
deserialize(blob) == [blk_num |-> blob[1], nblks |-> blob[2]]

\* write_journal, the buffer it fills: the repl_journal_entry, then in buf the header
\* bytes, the key bytes and, for an entry with a value, the serialized block id
journal_buf(rreq) ==
    [entry |-> [major_version |-> JOURNAL_ENTRY_MAJOR,
                code |-> HS_LARGE_DATA,
                user_header_size |-> Len(rreq.header),
                key_size |-> Len(rreq.key)],
     bytes |-> rreq.header \o rreq.key
                 \o (IF rreq.value_size > 0 THEN serialize(rreq.local_blkid) ELSE <<>>)]

\* a key read from where the header starts
found_key_AtStart(buf) == SubSeq(buf.bytes, 1, buf.entry.key_size)

\* on_log_found, the blobs it takes from the buffer
found_header(buf) == SubSeq(buf.bytes, 1, buf.entry.user_header_size)
found_key(buf) ==
    SubSeq(buf.bytes, buf.entry.user_header_size + 1,
           buf.entry.user_header_size + buf.entry.key_size)
found_remain_size(buf) == Len(buf.bytes) - buf.entry.user_header_size - buf.entry.key_size
found_blkid(buf) ==
    IF found_remain_size(buf) # 0
    THEN deserialize(SubSeq(buf.bytes,
                            buf.entry.user_header_size + buf.entry.key_size + 1,
                            Len(buf.bytes)))
    ELSE NoBlkId

\* on_log_found, its four RELEASE_ASSERTs hold
found_asserts(buf) ==
    /\ buf.entry.major_version = JOURNAL_ENTRY_MAJOR
    /\ buf.entry.code = HS_LARGE_DATA
    /\ Len(buf.bytes) >= buf.entry.user_header_size
    /\ Len(buf.bytes) - buf.entry.user_header_size >= buf.entry.key_size

\* a store that hands out the same LSN again
next_lsn_Same(seq) == seq

\* HomeLogStore::append_async, the LSN of the append after this one
next_lsn(seq) == seq + 1

\* m_commit_upto after lines 87-88 and 119-120
commit_upto_after(lsn) == IF m_commit_upto < lsn THEN lsn ELSE m_commit_upto

\* write_journal: the entry is serialized and appended to the data journal, which gives
\* it the next LSN of the store
write_journal(rreq) ==
    /\ j_buf' = Append(j_buf, [lsn |-> j_seq, buf |-> journal_buf(rreq), rreq |-> rreq])
    /\ j_seq' = next_lsn(j_seq)

\* async_alloc_write: a null rreq is dereferenced (the object of line 31 is local to the
\* if block); with a value the blocks are allocated and the data written first, without
\* one the entry goes to the journal at once
async_alloc_write(header, key, value_size, blkid, has_rreq) ==
    /\ j_pc = "up"
    /\ j_appends < MaxAppends
    /\ j_appends' = j_appends + 1
    /\ LET rreq == [header |-> header, key |-> key, value_size |-> value_size,
                    local_blkid |-> IF value_size > 0 THEN blkid ELSE NoBlkId]
       IN  IF ~has_rreq
           THEN /\ j_pc' = "undefined"
                /\ UNCHANGED <<j_writes, j_seq, j_buf>>
           ELSE IF value_size > 0
           THEN /\ j_writes' = Append(j_writes, rreq)
                /\ UNCHANGED <<j_pc, j_seq, j_buf>>
           ELSE /\ write_journal(rreq)
                /\ UNCHANGED <<j_pc, j_writes>>
    /\ UNCHANGED <<j_boot_seq, j_media, j_cb_q, j_idx, j_commits, j_fired, m_commit_upto,
                   j_boots, journalFrame>>

\* the continuation of the data write of the i-th request under way
data_written(i) ==
    /\ j_pc = "up"
    /\ i \in 1 .. Len(j_writes)
    /\ write_journal(j_writes[i])
    /\ j_writes' = SubSeq(j_writes, 1, i - 1) \o SubSeq(j_writes, i + 1, Len(j_writes))
    /\ UNCHANGED <<j_pc, j_boot_seq, j_media, j_cb_q, j_idx, j_commits, j_fired,
                   m_commit_upto, j_appends, j_boots, journalFrame>>

\* the log device flushes its buffer: the records are on media, their callbacks are due
logdev_flush ==
    /\ j_pc = "up"
    /\ j_buf # <<>>
    /\ j_media' = j_media \o [i \in 1 .. Len(j_buf) |->
                                  [lsn |-> j_buf[i].lsn, buf |-> j_buf[i].buf]]
    /\ j_cb_q' = j_cb_q \o j_buf
    /\ j_buf' = <<>>
    /\ UNCHANGED <<j_pc, j_writes, j_seq, j_boot_seq, j_idx, j_commits, j_fired,
                   m_commit_upto, j_appends, j_boots, journalFrame>>

\* the append callback of write_journal, for the next flushed record
append_callback ==
    /\ j_pc = "up"
    /\ j_cb_q # <<>>
    /\ LET rec == Head(j_cb_q)
       IN  /\ m_commit_upto' = commit_upto_after(rec.lsn)
           /\ j_commits' = Append(j_commits,
                  [lsn |-> rec.lsn, header |-> rec.rreq.header, key |-> rec.rreq.key,
                   blkid |-> rec.rreq.local_blkid, replay |-> FALSE,
                   value_size |-> rec.rreq.value_size])
    /\ j_cb_q' = Tail(j_cb_q)
    /\ UNCHANGED <<j_pc, j_writes, j_seq, j_boot_seq, j_buf, j_media, j_idx, j_fired,
                   j_appends, j_boots, journalFrame>>

\* the last LSN on media, or the one before the first
LastLsnOnMedia == IF j_media = <<>> THEN FirstLsn - 1 ELSE j_media[Len(j_media)].lsn

\* the process stops; a SoloReplDev is constructed with load_existing and opens its data
\* journal, which holds what was on media
journal_restart ==
    /\ j_pc \in {"up", "undefined"}
    /\ j_boots < MaxJBoots
    /\ j_boots' = j_boots + 1
    /\ j_fired' = j_fired \cup {j_commits[i] : i \in {k \in 1 .. Len(j_commits) :
                                                       ~j_commits[k].replay}}
    /\ j_commits' = <<>>
    /\ j_writes' = <<>>
    /\ j_buf' = <<>>
    /\ j_cb_q' = <<>>
    /\ m_commit_upto' = -1
    /\ j_seq' = LastLsnOnMedia + 1
    /\ j_boot_seq' = LastLsnOnMedia + 1
    /\ j_idx' = 1
    /\ j_pc' = "replay"
    /\ UNCHANGED <<j_media, j_appends, journalFrame>>

\* on_log_found for the next record of the opened journal, in the order of the LSNs; the
\* store is handed over when the last record was replayed
on_log_found ==
    /\ j_pc = "replay"
    /\ IF j_idx > Len(j_media)
       THEN /\ j_pc' = "up"
            /\ j_idx' = 0
            /\ UNCHANGED <<j_commits, m_commit_upto>>
       ELSE LET lsn == j_media[j_idx].lsn
                buf == j_media[j_idx].buf
            IN  IF ~found_asserts(buf)
                THEN /\ j_pc' = "fatal"
                     /\ UNCHANGED <<j_idx, j_commits, m_commit_upto>>
                ELSE /\ m_commit_upto' = commit_upto_after(lsn)
                     /\ j_commits' = Append(j_commits,
                            [lsn |-> lsn, header |-> found_header(buf),
                             key |-> found_key(buf), blkid |-> found_blkid(buf),
                             replay |-> TRUE,
                             value_size |-> found_remain_size(buf)])
                     /\ j_idx' = j_idx + 1
                     /\ UNCHANGED j_pc
    /\ UNCHANGED <<j_writes, j_seq, j_boot_seq, j_buf, j_media, j_cb_q, j_fired,
                   j_appends, j_boots, journalFrame>>

InitJournal ==
    /\ InitCP
    /\ DmIdle
    /\ ChunkIdle
    /\ OtherIdle

NextJournal ==
    \/ \E header \in Headers, key \in Keys, value_size \in {0, 1}, blkid \in BlkIds,
          has_rreq \in BOOLEAN : async_alloc_write(header, key, value_size, blkid, has_rreq)
    \/ \E i \in 1 .. MaxAppends : data_written(i)
    \/ logdev_flush
    \/ append_callback
    \/ journal_restart
    \/ on_log_found

SpecJournal == InitJournal /\ [][NextJournal]_vars

\* the LSNs the append callbacks of this boot were called with, in the order of the calls
CallbackLsns ==
    LET idx == {k \in 1 .. Len(j_commits) : ~j_commits[k].replay}
        nth(n) == CHOOSE k \in idx : Cardinality({o \in idx : o < k}) = n - 1
    IN  [n \in 1 .. Cardinality(idx) |-> j_commits[nth(n)].lsn]

\* C21: the append callbacks of a log store are called with strictly increasing LSNs, so
\* in LSN order and at most once each, and only for records on media; when no append is
\* left in the buffer or waiting for its callback each append since boot had its callback
C21_CallbacksInLsnOrderOnceAfterDurable ==
    /\ \A m, n \in 1 .. Len(CallbackLsns) : m < n => CallbackLsns[m] < CallbackLsns[n]
    /\ \A n \in 1 .. Len(CallbackLsns) :
           \E i \in 1 .. Len(j_media) : j_media[i].lsn = CallbackLsns[n]
    /\ (j_pc = "up" /\ j_buf = <<>> /\ j_cb_q = <<>>)
           => {CallbackLsns[n] : n \in 1 .. Len(CallbackLsns)} = j_boot_seq .. (j_seq - 1)

\* all the appends of a behaviour have had their callbacks, the first for an entry
\* without a value and the second for one with a value, and nothing is left to flush
C21_Witness ==
    /\ j_pc = "up"
    /\ j_boots = 0
    /\ Len(CallbackLsns) = MaxAppends
    /\ j_buf = <<>> /\ j_cb_q = <<>> /\ j_writes = <<>>
    /\ j_commits[1].value_size = 0
    /\ j_commits[2].value_size > 0

\* the on_commit calls replay has made since boot, in the order of the calls
Replayed ==
    LET idx == {k \in 1 .. Len(j_commits) : j_commits[k].replay}
        nth(n) == CHOOSE k \in idx : Cardinality({o \in idx : o < k}) = n - 1
    IN  [n \in 1 .. Cardinality(idx) |-> j_commits[nth(n)]]

\* C24: after a restart every journal entry whose append callback had fired is replayed, in
\* LSN order, with the LSN, header bytes, key bytes and block id its callback was given;
\* an entry written without a value is replayed with an empty block id
C24_ReplayReturnsWhatWasCommitted ==
    /\ \A m, n \in 1 .. Len(Replayed) : m < n => Replayed[m].lsn < Replayed[n].lsn
    /\ (j_pc = "up" /\ j_boots > 0)
           => \A e \in j_fired :
                  \E n \in 1 .. Len(Replayed) :
                      /\ Replayed[n].lsn = e.lsn
                      /\ Replayed[n].header = e.header
                      /\ Replayed[n].key = e.key
                      /\ Replayed[n].blkid = e.blkid
                      /\ e.value_size = 0 => Replayed[n].blkid = NoBlkId

\* replay has returned two entries committed before the restart, one with a header, a key
\* and a block id and one without a value, and one more whose callback had not fired
C24_Witness ==
    /\ j_pc = "up"
    /\ j_boots > 0
    /\ Cardinality(j_fired) = 2
    /\ Len(Replayed) = 3
    /\ \E e \in j_fired : e.header # <<>> /\ e.key # <<>> /\ e.blkid # NoBlkId
    /\ \E e \in j_fired : e.value_size = 0

\* ---------------------------------------------------------------------------------------
\* create_vdev: the tier of the devices a vdev is placed on
\* ---------------------------------------------------------------------------------------

\* the devices of a tier among those the device manager runs on
PdevsOfTier(ty) == {d \in Range(m_dev_infos) : dm_disk[d].hw.dev_type = ty}

\* the tier a vdev asked for on dtype is to be placed on
PlacementTier(dtype) == IF PdevsOfTier(dtype) # {} THEN dtype ELSE "Data"

\* the step is a create_vdev call that got a vdev id
CreateStep == dm_pc = "ready" /\ dm_creates' = dm_creates + 1

CreateFailed == dm_pc = "ready" /\ dm_pc' = "ready" /\ dm_last'.status = "out_of_range"

\* C39: a create_vdev call that fails for want of a vdev id or of chunk ids leaves the
\* vdev-id bitmap, the chunk-id bitmap, the vdev table and the chunk table as they were
C39_FailedCreateLeavesTopology ==
    [][CreateFailed
         => /\ m_vdev_id_bm' = m_vdev_id_bm
            /\ m_chunk_id_bm' = m_chunk_id_bm
            /\ m_vdevs' = m_vdevs
            /\ m_chunks' = m_chunks]_vars

\* ---------------------------------------------------------------------------------------
\* trigger_cp_flush called by a thread that holds a CPGuard
\* ---------------------------------------------------------------------------------------

\* a user thread with a CPGuard on its stack calls trigger_cp_flush(force)
TriggerCallHolding(t, force) ==
    /\ t \in Users /\ pc[t] = "idle" /\ t_cp_stack[t] # <<>>
    /\ Len(t_cp_stack[t]) < MaxNest
    /\ m_cur_cp # NULL
    /\ pc' = [pc EXCEPT ![t] = "cas"]
    /\ l_force' = [l_force EXCEPT ![t] = force]
    /\ l_ctx' = [l_ctx EXCEPT ![t] = "user"]
    /\ fut' = [fut EXCEPT ![t] = NoFut]
    /\ UNCHANGED <<mgrVars, sbVars, rcu_wait, flush_pending, ioVars, t_cp_stack, l_cp,
                   l_ret, wdVars, histVars, inflight_cp, ub, restVars>>

NextForce ==
    \/ \E t \in Users : GuardEnter(t)
    \/ \E t \in Users : GuardRef(t)
    \/ \E t \in Users : GuardExit(t)
    \/ \E t \in Users : ExitCheck(t)
    \/ \E t \in Users, force \in BOOLEAN : TriggerCall(t, force)
    \/ \E t \in Users, force \in BOOLEAN : TriggerCallHolding(t, force)
    \/ \E t \in Threads : CasWon(t)
    \/ \E t \in Users : CasBusyForce(t)
    \/ \E t \in Threads : CasBusyNoForce(t)
    \/ \E t \in Threads : TLock(t)
    \/ \E t \in Threads : TSwap(t)
    \/ \E t \in Threads : TSync(t)
    \/ \E t \in Threads : TExit(t)
    \/ \E t \in Threads : TExitCheck(t)
    \/ \E t \in Users : ForceLocked(t)
    \/ \E c \in CpIds, k \in Consumers : ConsumerFlushDone(c, k)
    \/ CbPersist
    \/ CbCleanup
    \/ CbDelete
    \/ CbSetValue
    \/ CbClear

SpecForce == Init /\ [][NextForce]_vars

\* C35: when a forced trigger_cp_flush that found a flush in progress takes its guard under
\* trigger_cp_mtx, the CP it gets is not in flush_prepare, whether or not the caller holds
\* a CPGuard already
C35_ForcedTriggerNeverSeesFlushPrepare ==
    [][\A t \in Users :
          (pc[t] = "f_lock" /\ fut'[t] # NoFut /\ Live(GuardedCp(t)))
          => cps[GuardedCp(t)].m_cp_status # "cp_flush_prepare"]_vars

\* ---------------------------------------------------------------------------------------
\* SoloReplDev: the type tag of a journal record
\* ---------------------------------------------------------------------------------------

\* the record carries a serialized block id after its header and key
CarriesBlkId(buf) == found_remain_size(buf) = Len(serialize(NoBlkId))

\* C32: a journal record has the code HS_LARGE_DATA exactly when its value was written to
\* the data service and the record carries the block id; a record of a request without
\* such a value does not have the code HS_LARGE_DATA
C32_LargeDataTagIffOutOfLine ==
    /\ \A i \in 1 .. Len(j_buf) :
           (j_buf[i].buf.entry.code = HS_LARGE_DATA)
               <=> (j_buf[i].rreq.value_size > 0 /\ CarriesBlkId(j_buf[i].buf))
    /\ \A i \in 1 .. Len(j_media) :
           (j_media[i].buf.entry.code = HS_LARGE_DATA) <=> CarriesBlkId(j_media[i].buf)

\* ---------------------------------------------------------------------------------------
\* SoloReplDev: async_alloc_write without a request context
\* ---------------------------------------------------------------------------------------

\* C40: async_alloc_write never dereferences a null rreq: a call without a request context
\* goes on with a fresh one, as a call with a context does
C40_NullRreqNeverDereferenced == j_pc # "undefined"

\* ---------------------------------------------------------------------------------------
\* SoloReplDev: the steps of a write, its append callback line by line, and cp_flush
\* ---------------------------------------------------------------------------------------

commitFrame == <<cpVars, dmVars, chunkVars, guardVars, flushVars, swVars, truncVars>>

\* a request goes straight to the journal whatever its value
needs_data_write_Never(rreq) == FALSE

\* async_alloc_write, line 37: the request has a value to write first
needs_data_write(rreq) == rreq.value_size > 0

NewSteps(id, value_size) ==
    Append(req_steps, [value_size |-> value_size, steps |-> <<>>, assigned |-> 0,
                       lsn |-> 0, commit_lsn |-> 0])
Step(steps, id, names) == [steps EXCEPT ![id].steps = @ \o names]
\* the steps of write_journal: the append, and the LSN the log store gives it
Appended(steps, id, names) ==
    [steps EXCEPT ![id].steps = @ \o names, ![id].assigned = j_seq]

\* async_alloc_write with a request context, lines 32-53: alloc_blks and async_write for a
\* request with a value (a status other than SUCCESS stops the process), write_journal
\* at once for one without
alloc_write(value_size, blkid, alloc_ok) ==
    /\ j_pc = "up"
    /\ j_appends < MaxAppends
    /\ j_appends' = j_appends + 1
    /\ LET id == j_appends + 1
           rreq == [header |-> <<1>>, key |-> <<2>>, value_size |-> value_size,
                    local_blkid |-> IF value_size > 0 THEN blkid ELSE NoBlkId, id |-> id]
           new == NewSteps(id, value_size)
       IN  IF needs_data_write(rreq)
           THEN IF alloc_ok
                THEN /\ j_writes' = Append(j_writes, rreq)
                     /\ req_steps' = Step(new, id, <<"alloc_blks", "async_write">>)
                     /\ UNCHANGED <<j_pc, j_seq, j_buf>>
                ELSE /\ j_pc' = "fatal"
                     /\ req_steps' = Step(new, id, <<"alloc_failed">>)
                     /\ UNCHANGED <<j_writes, j_seq, j_buf>>
           ELSE /\ write_journal(rreq)
                /\ req_steps' = Appended(new, id, <<"append_async">>)
                /\ UNCHANGED <<j_pc, j_writes>>
    /\ UNCHANGED <<j_boot_seq, j_media, j_cb_q, j_idx, j_commits, j_fired, m_commit_upto,
                   j_boots, cb_run, cp_pc, cp_lsn, m_rd_sb, sb_writes, commitFrame>>

\* the continuation of async_write, lines 47-50: an error stops the process, otherwise
\* write_journal
write_done(i, err) ==
    /\ j_pc = "up"
    /\ i \in 1 .. Len(j_writes)
    /\ j_writes' = SubSeq(j_writes, 1, i - 1) \o SubSeq(j_writes, i + 1, Len(j_writes))
    /\ IF err
       THEN /\ j_pc' = "fatal"
            /\ req_steps' = Step(req_steps, j_writes[i].id, <<"write_failed">>)
            /\ UNCHANGED <<j_seq, j_buf>>
       ELSE /\ write_journal(j_writes[i])
            /\ req_steps' = Appended(req_steps, j_writes[i].id,
                                      <<"write_done", "append_async">>)
            /\ UNCHANGED j_pc
    /\ UNCHANGED <<j_boot_seq, j_media, j_cb_q, j_idx, j_commits, j_fired, m_commit_upto,
                   j_appends, j_boots, cb_run, cp_pc, cp_lsn, m_rd_sb, sb_writes,
                   commitFrame>>

Without(q, i) == SubSeq(q, 1, i - 1) \o SubSeq(q, i + 1, Len(q))

\* the append callback starts for the next flushed record, lines 84-85: rreq->lsn = lsn,
\* on_pre_commit
cb_pre_commit ==
    /\ j_pc = "up"
    /\ j_cb_q # <<>>
    /\ Len(cb_run) < MaxOverlap
    /\ LET rec == Head(j_cb_q)
       IN  /\ cb_run' = Append(cb_run, [rec |-> rec, pc |-> "load", cur_lsn |-> -1])
           /\ req_steps' = [req_steps EXCEPT ![rec.rreq.id].steps = Append(@, "on_pre_commit"),
                                             ![rec.rreq.id].lsn = rec.lsn]
    /\ j_cb_q' = Tail(j_cb_q)
    /\ UNCHANGED <<j_pc, j_writes, j_seq, j_boot_seq, j_buf, j_media, j_idx, j_commits,
                   j_fired, m_commit_upto, j_appends, j_boots, cp_pc, cp_lsn, m_rd_sb,
                   sb_writes, commitFrame>>

\* line 87: cur_lsn = m_commit_upto.load()
cb_load(i) ==
    /\ j_pc = "up"
    /\ i \in 1 .. Len(cb_run)
    /\ cb_run[i].pc = "load"
    /\ cb_run' = [cb_run EXCEPT ![i].pc = "cas", ![i].cur_lsn = m_commit_upto]
    /\ UNCHANGED <<journalVars, req_steps, cp_pc, cp_lsn, m_rd_sb, sb_writes, commitFrame>>

\* line 88: if (cur_lsn < lsn) m_commit_upto.compare_exchange_strong(cur_lsn, lsn), its
\* result not looked at
cb_cas(i) ==
    /\ j_pc = "up"
    /\ i \in 1 .. Len(cb_run)
    /\ cb_run[i].pc = "cas"
    /\ m_commit_upto' = IF cb_run[i].cur_lsn < cb_run[i].rec.lsn
                            /\ m_commit_upto = cb_run[i].cur_lsn
                        THEN cb_run[i].rec.lsn
                        ELSE m_commit_upto
    /\ cb_run' = [cb_run EXCEPT ![i].pc = "commit_blk"]
    /\ UNCHANGED <<j_pc, j_writes, j_seq, j_boot_seq, j_buf, j_media, j_cb_q, j_idx,
                   j_commits, j_fired, j_appends, j_boots, req_steps, cp_pc, cp_lsn,
                   m_rd_sb, sb_writes, commitFrame>>

\* line 90: data_service().commit_blk(rreq->local_blkid)
cb_commit_blk(i) ==
    /\ j_pc = "up"
    /\ i \in 1 .. Len(cb_run)
    /\ cb_run[i].pc = "commit_blk"
    /\ cb_run' = [cb_run EXCEPT ![i].pc = "on_commit"]
    /\ req_steps' = Step(req_steps, cb_run[i].rec.rreq.id, <<"commit_blk">>)
    /\ UNCHANGED <<journalVars, cp_pc, cp_lsn, m_rd_sb, sb_writes, commitFrame>>

\* line 91: on_commit(rreq->lsn, header, key, local_blkid, rreq); the callback returns
cb_on_commit(i) ==
    /\ j_pc = "up"
    /\ i \in 1 .. Len(cb_run)
    /\ cb_run[i].pc = "on_commit"
    /\ LET rec == cb_run[i].rec
           id == rec.rreq.id
       IN  /\ j_commits' = Append(j_commits,
                  [lsn |-> req_steps[id].lsn, header |-> rec.rreq.header,
                   key |-> rec.rreq.key, blkid |-> rec.rreq.local_blkid, replay |-> FALSE,
                   value_size |-> rec.rreq.value_size])
           /\ req_steps' = [req_steps EXCEPT ![id].steps = Append(@, "on_commit"),
                                             ![id].commit_lsn = req_steps[id].lsn]
    /\ cb_run' = Without(cb_run, i)
    /\ UNCHANGED <<j_pc, j_writes, j_seq, j_boot_seq, j_buf, j_media, j_cb_q, j_idx,
                   j_fired, m_commit_upto, j_appends, j_boots, cp_pc, cp_lsn, m_rd_sb,
                   sb_writes, commitFrame>>

\* cp_flush, line 135: lsn = m_commit_upto.load()
cp_flush_load ==
    /\ j_pc = "up"
    /\ cp_pc = "idle"
    /\ Len(sb_writes) < MaxCpFlushes
    /\ cp_lsn' = m_commit_upto
    /\ cp_pc' = "write"
    /\ UNCHANGED <<journalVars, cb_run, req_steps, m_rd_sb, sb_writes, commitFrame>>

\* the LSNs on_commit has been called with since boot
Committed == {j_commits[k].lsn : k \in 1 .. Len(j_commits)}

\* cp_flush, lines 136-138: commit_lsn and checkpoint_lsn are set and the super-block
\* written
cp_flush_write ==
    /\ cp_pc = "write"
    /\ m_rd_sb' = [commit_lsn |-> cp_lsn, checkpoint_lsn |-> cp_lsn]
    /\ sb_writes' = Append(sb_writes, [commit_lsn |-> cp_lsn, checkpoint_lsn |-> cp_lsn,
                                       committed |-> Committed])
    /\ cp_pc' = "idle"
    /\ UNCHANGED <<journalVars, cb_run, req_steps, cp_lsn, commitFrame>>

\* the record an earlier boot left on the data journal
FoundRecord(lsn) ==
    [lsn |-> lsn,
     buf |-> journal_buf([header |-> <<1>>, key |-> <<2>>, value_size |-> 1,
                          local_blkid |-> [blk_num |-> 1, nblks |-> 1]])]

\* a replication device just constructed: a new one with an empty data journal, or a
\* loaded one whose data journal holds the records found on media, about to be replayed
InitCommit ==
    /\ InitCP
    /\ DmIdle
    /\ ChunkIdle
    /\ GuardIdle
    /\ FlushIdle
    /\ SwitchIdle(Consumers)
    /\ TruncIdle
    /\ \E found \in 0 .. MaxFound :
           /\ j_media = [i \in 1 .. found |-> FoundRecord(FirstLsn + i - 1)]
           /\ j_pc = IF found = 0 THEN "up" ELSE "replay"
           /\ j_idx = IF found = 0 THEN 0 ELSE 1
           /\ j_seq = FirstLsn + found
           /\ j_boot_seq = FirstLsn + found
           /\ j_boots = IF found = 0 THEN 0 ELSE 1
    /\ j_writes = <<>>
    /\ j_buf = <<>>
    /\ j_cb_q = <<>>
    /\ j_commits = <<>>
    /\ j_fired = {}
    /\ m_commit_upto = -1
    /\ j_appends = 0
    /\ CommitIdle

NextCommit ==
    \/ \E value_size \in {0, 1}, blkid \in BlkIds, alloc_ok \in BOOLEAN :
          alloc_write(value_size, blkid, alloc_ok)
    \/ \E i \in 1 .. MaxAppends, err \in BOOLEAN : write_done(i, err)
    \/ logdev_flush
    \/ cb_pre_commit
    \/ \E i \in 1 .. MaxOverlap : cb_load(i)
    \/ \E i \in 1 .. MaxOverlap : cb_cas(i)
    \/ \E i \in 1 .. MaxOverlap : cb_commit_blk(i)
    \/ \E i \in 1 .. MaxOverlap : cb_on_commit(i)
    \/ on_log_found
    \/ cp_flush_load
    \/ cp_flush_write

SpecCommit == InitCommit /\ [][NextCommit]_vars

\* no append callback and no replay is mid-way
NoCallbackMidWay == j_pc = "up" /\ cb_run = <<>>

\* C36: m_commit_upto never goes down, and whenever no append callback and no replay is
\* mid-way it is the largest LSN on_commit has been called with
C36_CommitUptoIsLargestCommitted ==
    /\ [][m_commit_upto' >= m_commit_upto]_vars
    /\ [](NoCallbackMidWay => \A lsn \in Committed : lsn <= m_commit_upto)
    /\ [](NoCallbackMidWay => (m_commit_upto \in Committed \/ Committed = {}))

\* C37: every super-block cp_flush writes has commit_lsn = checkpoint_lsn, the
\* checkpoint_lsn of a write is not below that of the write before it, and on_commit (and
\* so commit_blk before it) had returned for every LSN up to the checkpoint_lsn when the
\* super-block was written
C37_CheckpointLsnOnlyCoversCommitted ==
    /\ \A i \in 1 .. Len(sb_writes) : sb_writes[i].commit_lsn = sb_writes[i].checkpoint_lsn
    /\ \A i, k \in 1 .. Len(sb_writes) :
           i < k => sb_writes[i].checkpoint_lsn <= sb_writes[k].checkpoint_lsn
    /\ \A i \in 1 .. Len(sb_writes) :
           \A lsn \in FirstLsn .. sb_writes[i].checkpoint_lsn : lsn \in sb_writes[i].committed

\* the steps of a request in the order of lines 37-52 and 84-91
ExpectedSteps(value_size) ==
    (IF value_size > 0 THEN <<"alloc_blks", "async_write", "write_done">> ELSE <<>>)
        \o <<"append_async", "on_pre_commit", "commit_blk", "on_commit">>
IsPrefix(a, b) == Len(a) <= Len(b) /\ a = SubSeq(b, 1, Len(a))
\* the steps of a request stopped by a failed allocation or a failed data write
StoppedSteps == {<<"alloc_failed">>, <<"alloc_blks", "async_write", "write_failed">>}

\* nothing of any request is left to do
AllWritesDone ==
    /\ j_pc = "up"
    /\ j_writes = <<>> /\ j_buf = <<>> /\ j_cb_q = <<>> /\ cb_run = <<>>

\* C38: the steps made for a request are, in this order and once each: for a value that is
\* not empty alloc_blks, async_write and its completion without error, then for every
\* request the journal append, on_pre_commit, commit_blk and on_commit, which is given
\* the LSN the append was assigned; a failed allocation or data write stops the request
\* before the append; when nothing is left to do every request has made all its steps
C38_StepsOfAWriteInOrder ==
    /\ \A id \in 1 .. Len(req_steps) :
           \/ IsPrefix(req_steps[id].steps, ExpectedSteps(req_steps[id].value_size))
           \/ req_steps[id].value_size > 0 /\ req_steps[id].steps \in StoppedSteps
    /\ \A id \in 1 .. Len(req_steps) :
           req_steps[id].commit_lsn # 0
               => /\ req_steps[id].commit_lsn = req_steps[id].assigned
                  /\ \E k \in 1 .. Len(j_commits) :
                         ~j_commits[k].replay /\ j_commits[k].lsn = req_steps[id].assigned
    /\ AllWritesDone
           => \A id \in 1 .. Len(req_steps) :
                  req_steps[id].steps = ExpectedSteps(req_steps[id].value_size)

\* three requests have made all their steps, the first with a value and the second
\* without one, after the replay of a record found on the journal
C38_Witness ==
    /\ AllWritesDone
    /\ j_boots = 1
    /\ Len(req_steps) = MaxAppends
    /\ req_steps[1].value_size > 0 /\ req_steps[1].steps = ExpectedSteps(1)
    /\ req_steps[2].value_size = 0 /\ req_steps[2].steps = ExpectedSteps(0)
    /\ req_steps[3].commit_lsn = FirstLsn + MaxFound + 2

\* ---------------------------------------------------------------------------------------
\* the checkpoint manager: the CPs that are past cp_trigger
\* ---------------------------------------------------------------------------------------

\* the live CPs whose status is one of the given ones
CpsIn(statuses) == {c \in CpIds : Live(c) /\ cps[c].m_cp_status \in statuses}

\* C34: a CP in cp_flushing, cp_flush_done or cp_cleaning has an entry count of zero,
\* cp_io_exit never decrements the count of a CP in cp_flushing, and cp_start_flush runs
\* at most once for a CP
C34_FlushingCpHasNoEntryAndOneFlush ==
    /\ [](\A c \in CpsIn({"cp_flushing", "cp_flush_done", "cp_cleaning"}) :
              cps[c].m_enter_cnt = 0)
    /\ [][\A c \in CpIds :
              (Live(c) /\ cps'[c].alloc = "live"
                  /\ cps'[c].m_enter_cnt < cps[c].m_enter_cnt)
              => cps[c].m_cp_status # "cp_flushing"]_vars
    /\ [](\A c \in CpIds : cp_flush_calls[c] <= 1)

\* C33: at most one CP at a time is in cp_flush_prepare, cp_flushing, cp_flush_done or
\* cp_cleaning: the switch that prepares a CP does not start while the CP flushed before
\* it still exists
C33_AtMostOneCpBeingFlushed ==
    Cardinality(CpsIn({"cp_flush_prepare", "cp_flushing", "cp_flush_done", "cp_cleaning"}))
        <= 1

\* CP 1 was flushed and deleted; CP 2, on which a forced trigger had asked for a flush
\* while CP 1 was being flushed, is being cleaned up, and CP 3 is the current CP
C33_Witness ==
    /\ ~Live(1)
    /\ Live(2) /\ cps[2].m_cp_status = "cp_cleaning" /\ cps[2].m_cp_waiting_to_trigger
    /\ Live(3) /\ m_cur_cp = 3 /\ cps[3].m_cp_status = "cp_io_ready"
    /\ ~ub

====
